---- MODULE Spec2Model ----
(***************************************************************************)
(* Model of the neo4j-mcp-fraud server core: the YAML tool registry and    *)
(* the dispatcher's tool table (startup), the tool handlers (per call),    *)
(* the read/write query-mode check and the Cypher query builders.          *)
(*                                                                         *)
(* Strings the code inspects character by character (Cypher text given to  *)
(* validateQueryMode, Cypher text the builders emit) are sequences of       *)
(* one-character strings.  Go's nil is the string "nil".                   *)
(***************************************************************************)
EXTENDS Integers, Sequences, FiniteSets, TLC

VARIABLES
    phase,        \* position of the modelled run: what has been done so far
    config,       \* Neo4jMCPServer.config and .gdsInstalled
    embeddedFS,   \* dynamic.EmbeddedFS: [available, files]
    osFS,         \* the tools/config directory on disk: [exists, files]
    registry,     \* the ToolRegistry built by loadDynamicTools: [configs]
    mcpTools,     \* what registerTools handed to MCPServer.AddTools
    startErr,     \* the error registerTools returned
    request,      \* the tool call being served: dependencies, arguments, faults
    result,       \* the handler's (*mcp.CallToolResult, error)
    dbCalls,      \* calls made on deps.DBService during the invocation, in order
    events,       \* tool names passed to AnalyticsService.EmitEvent, in order
    builtQuery,   \* the Cypher text a query builder returned
    matchBuilder, \* an OptionalMatchBuilder instance: [clauses, varCounter]
    returned,     \* what the calls on matchBuilder returned, in call order
    schemaItems,  \* the []SchemaItem processNativeSchema returned
    markdown,     \* the text formatSchemaAsMarkdown returned, line by line
    trace         \* the events emitted and the calls made by the handler, in order

vars == <<phase, config, embeddedFS, osFS, registry, mcpTools, startErr,
          request, result, dbCalls, events, builtQuery, matchBuilder, returned,
                   schemaItems, markdown, trace>>

nil == "nil"

(***************************************************************************)
(* Bounds of the model.                                                    *)
(***************************************************************************)
MaxFiles == 2      \* files in the embedded config tree
MaxOSFiles == 1    \* files in the on-disk config directory

\* All sequences over S of length at most n.
SeqsUpTo(S, n) == UNION {[1..k -> S] : k \in 0..n}

Range(s) == {s[i] : i \in 1..Len(s)}

\* ------------------------------------------------------------------------
\* YAML tool registry (package dynamic)
\* ------------------------------------------------------------------------

\* ParameterConfig values used in descriptors.
ParamString == [Name |-> "limit", Type |-> "integer"]
ParamUntyped == [Name |-> "entityId", Type |-> ""]
ParamNoName == [Name |-> "", Type |-> "string"]
ParamBadType == [Name |-> "limit", Type |-> "float"]

\* validateParameters: names non-empty and unique, type empty or allowed.
validTypes == {"string", "integer", "number", "boolean", "array", "object"}

RECURSIVE validateParametersFrom(_, _, _)
validateParametersFrom(params, i, names) ==
    IF i > Len(params) THEN nil
    ELSE IF params[i].Name = "" THEN "name is required"
    ELSE IF params[i].Name \in names THEN "duplicate parameter name"
    ELSE IF params[i].Type # "" /\ params[i].Type \notin validTypes
         THEN "invalid type"
    ELSE validateParametersFrom(params, i + 1, names \cup {params[i].Name})

validateParameters(params) == validateParametersFrom(params, 1, {})

\* Mutant of deriveCategoryFromPath: without a "config" part the category is
\* "general".
deriveCategoryFromPath_generalWithoutConfig(parts) ==
    LET following == {i \in 1..(Len(parts) - 1) : parts[i] = "config"} IN
    IF following = {} THEN "general"
    ELSE parts[(CHOOSE i \in following : \A j \in following : i <= j) + 1]

\* deriveCategoryFromPath: the path is its sequence of "/"-separated parts.
RECURSIVE configSegmentFrom(_, _)
configSegmentFrom(parts, i) ==
    IF i > Len(parts) THEN 0
    ELSE IF parts[i] = "config" /\ i + 1 <= Len(parts) THEN i
    ELSE configSegmentFrom(parts, i + 1)

deriveCategoryFromPath(parts) ==
    LET c == configSegmentFrom(parts, 1) IN
    IF c > 0 THEN parts[c + 1]
    ELSE IF Len(parts) >= 2
         THEN IF parts[1] = "tools" /\ Len(parts) >= 3 THEN parts[2]
              ELSE parts[1]
    ELSE "general"

\* parseToolConfig: [err, config].  file.yamlOK is yaml.Unmarshal succeeding.
parseToolConfig(file) ==
    IF ~file.yamlOK THEN [err |-> "failed to parse YAML", config |-> nil]
    ELSE IF file.Name = ""
         THEN [err |-> "tool name is required", config |-> nil]
    ELSE IF file.Description = ""
         THEN [err |-> "tool description is required", config |-> nil]
    ELSE IF validateParameters(file.Parameters) # nil
         THEN [err |-> "invalid parameters", config |-> nil]
    ELSE [err |-> nil,
          config |-> [Name |-> file.Name,
                      Description |-> file.Description,
                      Parameters |-> file.Parameters,
                      Category |-> deriveCategoryFromPath(file.path)]]

\* strings.HasSuffix(name, ".yaml") || strings.HasSuffix(name, ".yml")
IsYAMLFile(file) == file.ext \in {"yaml", "yml"}

\* The callback of fs.WalkDir / filepath.Walk over the files in walk order:
\* a read or parse error is returned from the callback and ends the walk.
RECURSIVE walkFrom(_, _, _)
walkFrom(files, i, configs) ==
    IF i > Len(files) THEN [err |-> nil, configs |-> configs]
    ELSE IF ~IsYAMLFile(files[i]) THEN walkFrom(files, i + 1, configs)
    ELSE IF ~files[i].readable
         THEN [err |-> "failed to read config", configs |-> <<>>]
    ELSE LET p == parseToolConfig(files[i]) IN
         IF p.err # nil THEN [err |-> p.err, configs |-> <<>>]
         ELSE walkFrom(files, i + 1, Append(configs, p.config))

walkEmbeddedConfigs(efs) ==
    IF ~efs.available
    THEN [err |-> "embedded FS not available", configs |-> <<>>]
    ELSE walkFrom(efs.files, 1, <<>>)

walkOSFilesystem(dir) ==
    IF ~dir.exists THEN [err |-> nil, configs |-> <<>>]
    ELSE walkFrom(dir.files, 1, <<>>)

WalkConfigDirectory(efs, dir) ==
    LET e == walkEmbeddedConfigs(efs) IN
    IF e.err = nil /\ Len(e.configs) > 0 THEN e
    ELSE walkOSFilesystem(dir)

NewToolRegistry == [configs |-> <<>>]

\* ToolRegistry.LoadTools: [err, registry].
LoadTools(r, efs, dir) ==
    LET w == WalkConfigDirectory(efs, dir) IN
    IF w.err # nil THEN [err |-> w.err, registry |-> r]
    ELSE [err |-> nil, registry |-> [configs |-> w.configs]]

GetToolCount(r) == Len(r.configs)

\* buildServerTool / GetServerTools: one server tool per loaded config.
buildServerTool(c) == [Name |-> c.Name, Handler |-> "NewDynamicHandler"]

GetServerTools(r) == [i \in 1..Len(r.configs) |-> buildServerTool(r.configs[i])]

\* ------------------------------------------------------------------------
\* Dispatcher and filters (package server)
\* ------------------------------------------------------------------------
cypherCategory == 0
gdsCategory == 1
fraudCategory == 2
schemaCategory == 3
dataCategory == 4
dynamicCategory == 5

ServerTool(name, handler) == [Name |-> name, Handler |-> handler]

ToolDefinition(cat, def, ro) ==
    [category |-> cat, definition |-> def, readonly |-> ro]

\* loadDynamicTools: [registry, toolDefs].
loadDynamicTools(efs, dir) ==
    LET l == LoadTools(NewToolRegistry, efs, dir) IN
    IF l.err # nil THEN [registry |-> l.registry, toolDefs |-> <<>>]
    ELSE IF GetToolCount(l.registry) = 0
         THEN [registry |-> l.registry, toolDefs |-> <<>>]
    ELSE LET st == GetServerTools(l.registry) IN
         [registry |-> l.registry,
          toolDefs |-> [i \in 1..Len(st) |->
                           ToolDefinition(dynamicCategory, st[i], TRUE)]]

hardCodedToolDefs ==
    << ToolDefinition(schemaCategory,
                      ServerTool("get-schema", "GetSchemaHandler"), TRUE),
       ToolDefinition(cypherCategory,
                      ServerTool("read-cypher", "ReadCypherHandler"), TRUE),
       ToolDefinition(cypherCategory,
                      ServerTool("write-cypher", "WriteCypherHandler"), FALSE),
       ToolDefinition(gdsCategory,
                      ServerTool("list-gds-procedures", "ListGdsProceduresHandler"), TRUE),
       ToolDefinition(schemaCategory,
                      ServerTool("get-data-models", "GetReferenceModelsHandler"), TRUE) >>

getAllToolsDefs(efs, dir) == hardCodedToolDefs \o loadDynamicTools(efs, dir).toolDefs

\* Mutant of filterWriteTools: the read-only filter keeps every tool.
filterWriteTools_keepAll(tools) == tools

filterWriteTools(tools) == LET keep(t) == t.readonly IN SelectSeq(tools, keep)

\* Mutant of filterGDSTools: the GDS filter keeps every tool.
filterGDSTools_keepAll(tools) == tools

filterGDSTools(tools) ==
    LET keep(t) == t.category # gdsCategory IN SelectSeq(tools, keep)

\* getEnabledTools before the definitions are extracted: the filtered table.
filterToolDefs(cfg, all) ==
    LET afterWrite == IF cfg.ReadOnly THEN filterWriteTools(all) ELSE all
    IN  IF ~cfg.gdsInstalled THEN filterGDSTools(afterWrite) ELSE afterWrite

filteredToolDefs(cfg, efs, dir) == filterToolDefs(cfg, getAllToolsDefs(efs, dir))

getEnabledTools(cfg, efs, dir) ==
    LET defs == filteredToolDefs(cfg, efs, dir) IN
    [i \in 1..Len(defs) |-> defs[i].definition]

\* ------------------------------------------------------------------------
\* Startup: the file trees and the configuration are inputs; registerTools
\* builds the table and hands it to the transport.
\* ------------------------------------------------------------------------
\* A file of a config tree with the keys of its YAML document.  Execution is
\* the mode of the document's execution block (nil: no such block), a key the
\* ToolConfig struct of this walker does not have.
File(path, ext, readable, yamlOK, name, desc, params) ==
    [path |-> path, ext |-> ext, readable |-> readable, yamlOK |-> yamlOK,
     Name |-> name, Description |-> desc, Parameters |-> params,
     Execution |-> nil, Title |-> ""]

WithExecution(file, mode) == [file EXCEPT !.Execution = mode]

WithTitle(file, title) == [file EXCEPT !.Title = title]

FileSet ==
    { File(<<"config", "fraud", "a.yaml">>, "yaml", TRUE, TRUE,
           "detect-synthetic-identity", "d", <<ParamString, ParamUntyped>>),
      File(<<"config", "bloom", "b.yml">>, "yml", TRUE, TRUE,
           "generate-search-phrase", "d", <<>>),
      File(<<"config", "sar", "c.yaml">>, "yaml", TRUE, TRUE,
           "get-schema", "d", <<>>),
      File(<<"config", "sar", "d.yaml">>, "yaml", TRUE, TRUE,
           "get-sar-report-guidance", "", <<>>),
      File(<<"config", "data", "e.yaml">>, "yaml", TRUE, TRUE,
           "get-customer-profile", "d", <<ParamString, ParamString>>),
      File(<<"config", "README.md">>, "md", TRUE, TRUE, "", "", <<>>) }

NoRequest == [tool |-> "none"]
NoResult == [isError |-> FALSE, err |-> nil, text |-> ""]

InitRegistry ==
    /\ phase = "startup"
    /\ config \in [ReadOnly : BOOLEAN, gdsInstalled : BOOLEAN]
    /\ embeddedFS \in [available : BOOLEAN, files : SeqsUpTo(FileSet, MaxFiles)]
    /\ osFS \in [exists : BOOLEAN, files : SeqsUpTo(FileSet, MaxOSFiles)]
    /\ registry = NewToolRegistry
    /\ mcpTools = <<>>
    /\ startErr = nil
    /\ request = NoRequest
    /\ result = NoResult
    /\ dbCalls = <<>>
    /\ events = <<>>
    /\ builtQuery = <<>>
    /\ matchBuilder = [clauses |-> <<>>, varCounter |-> 0]
    /\ returned = <<>>
    /\ schemaItems = <<>>
    /\ markdown = <<>>
    /\ trace = <<>>

\* registerTools: getEnabledTools, then MCPServer.AddTools; always returns nil.
registerTools ==
    /\ phase = "startup"
    /\ mcpTools' = getEnabledTools(config, embeddedFS, osFS)
    /\ registry' = loadDynamicTools(embeddedFS, osFS).registry
    /\ startErr' = nil
    /\ phase' = "registered"
    /\ UNCHANGED <<trace, config, embeddedFS, osFS, request, result, dbCalls, events, builtQuery,
                   matchBuilder, returned,
                   schemaItems, markdown>>

NextRegistry == registerTools

SpecRegistry == InitRegistry /\ [][NextRegistry]_vars

\* ------------------------------------------------------------------------
\* Properties of the startup table
\* ------------------------------------------------------------------------
HasDuplicateNames(tools) ==
    \E i, j \in 1..Len(tools) : i # j /\ tools[i].Name = tools[j].Name

\* C1: in a read-only deployment every tool handed to the transport comes
\* from a table entry flagged readonly, and the write-cypher tool (the entry
\* whose handler is WriteCypherHandler) is not among them, whatever the GDS
\* flag and whatever YAML descriptors were loaded.
C1_ReadOnlyExposesNoWriteTool ==
    (phase = "registered" /\ config.ReadOnly) =>
        \A i \in 1..Len(mcpTools) :
            /\ mcpTools[i].Handler # "WriteCypherHandler"
            /\ \A d \in Range(getAllToolsDefs(embeddedFS, osFS)) :
                   d.definition = mcpTools[i] => d.readonly

\* C1 witness: a read-only server with GDS installed that registered the
\* hard-coded read tools and at least two YAML tools.
C1_Witness ==
    /\ phase = "registered"
    /\ config.ReadOnly
    /\ config.gdsInstalled
    /\ Len(registry.configs) >= 2
    /\ Len(mcpTools) = Len(registry.configs) + 4

\* C4: the table handed to the transport holds no two tools with the same
\* name, or else startup failed (registerTools returned an error).
C4_NamesDistinctOrStartupFails ==
    phase = "registered" => (startErr # nil \/ ~HasDuplicateNames(mcpTools))

\* C5: after loading from an available embedded tree, every readable YAML
\* descriptor that validates has a registered dynamic tool of its name, and
\* a descriptor that does not validate has none.
C5_ValidLoadedInvalidSkipped ==
    (phase = "registered" /\ embeddedFS.available) =>
        \A f \in Range(embeddedFS.files) :
            (IsYAMLFile(f) /\ f.readable) =>
                LET registered ==
                        \E i \in 1..Len(mcpTools) :
                            /\ mcpTools[i].Name = f.Name
                            /\ mcpTools[i].Handler = "NewDynamicHandler"
                IN  (parseToolConfig(f).err = nil) <=> registered

\* ------------------------------------------------------------------------
\* Text: a string is the sequence of its characters.
\* ------------------------------------------------------------------------
LowerCase == <<"a", "b", "c", "d", "e", "f", "g", "h", "i", "j", "k", "l", "m", "n", "o", "p", "q", "r", "s", "t", "u", "v", "w", "x", "y", "z">>
UpperCase == <<"A", "B", "C", "D", "E", "F", "G", "H", "I", "J", "K", "L", "M", "N", "O", "P", "Q", "R", "S", "T", "U", "V", "W", "X", "Y", "Z">>

IsLower(c) == \E i \in 1..Len(LowerCase) : LowerCase[i] = c
IsUpper(c) == \E i \in 1..Len(UpperCase) : UpperCase[i] = c

ToUpperChar(c) ==
    IF IsLower(c) THEN UpperCase[CHOOSE i \in 1..Len(LowerCase) : LowerCase[i] = c]
    ELSE c

ToLowerChar(c) ==
    IF IsUpper(c) THEN LowerCase[CHOOSE i \in 1..Len(UpperCase) : UpperCase[i] = c]
    ELSE c

\* strings.ToUpper, strings.ToLower
ToUpper(s) == [i \in 1..Len(s) |-> ToUpperChar(s[i])]
ToLower(s) == [i \in 1..Len(s) |-> ToLowerChar(s[i])]

\* unicode.IsSpace on the characters the model uses
IsSpace(c) == c \in {" ", "\t", "\n", "\r"}

\* strings.TrimSpace: drop leading and trailing white space.
TrimSpace(s) ==
    IF \A i \in 1..Len(s) : IsSpace(s[i]) THEN <<>>
    ELSE LET first == CHOOSE i \in 1..Len(s) :
                          ~IsSpace(s[i]) /\ \A j \in 1..(i - 1) : IsSpace(s[j])
             last == CHOOSE i \in 1..Len(s) :
                          ~IsSpace(s[i]) /\ \A j \in (i + 1)..Len(s) : IsSpace(s[j])
         IN  SubSeq(s, first, last)

\* strings.Contains
Contains(s, sub) ==
    \E i \in 1..(Len(s) - Len(sub) + 1) : SubSeq(s, i, i + Len(sub) - 1) = sub

\* strings.Join
RECURSIVE Join(_, _)
Join(parts, sep) ==
    IF Len(parts) = 0 THEN <<>>
    ELSE IF Len(parts) = 1 THEN parts[1]
    ELSE parts[1] \o sep \o Join(Tail(parts), sep)

\* concatenation of a sequence of strings
RECURSIVE Concat(_)
Concat(parts) == IF Len(parts) = 0 THEN <<>> ELSE parts[1] \o Concat(Tail(parts))

\* ------------------------------------------------------------------------
\* Query-mode check and the query-running dynamic handler
\* (internal/tools/dynamic/handler.go)
\* ------------------------------------------------------------------------
KwCreate == <<"C", "R", "E", "A", "T", "E", " ">>
KwMerge == <<"M", "E", "R", "G", "E", " ">>
KwDelete == <<"D", "E", "L", "E", "T", "E", " ">>
KwRemove == <<"R", "E", "M", "O", "V", "E", " ">>
KwSet == <<"S", "E", "T", " ">>
KwDrop == <<"D", "R", "O", "P", " ">>
KwDetachDelete == <<"D", "E", "T", "A", "C", "H", " ", "D", "E", "L", "E", "T", "E">>
KwCallSubquery == <<"C", "A", "L", "L", " ", "{">>

writeKeywords ==
    <<KwCreate, KwMerge, KwDelete, KwRemove, KwSet, KwDrop, KwDetachDelete,
      KwCallSubquery>>

\* Mutant of validateQueryMode: the query is not upper-cased before the scan.
validateQueryMode_noUpper(query, mode) ==
    LET normalizedQuery == TrimSpace(query) IN
    IF mode = "read"
       /\ \E k \in 1..Len(writeKeywords) : Contains(normalizedQuery, writeKeywords[k])
    THEN "write operation detected in read-only tool"
    ELSE nil

\* validateQueryMode: nil, or the error for the first keyword found.
validateQueryMode(query, mode) ==
    LET normalizedQuery == ToUpper(TrimSpace(query)) IN
    IF mode = "read"
       /\ \E k \in 1..Len(writeKeywords) : Contains(normalizedQuery, writeKeywords[k])
    THEN "write operation detected in read-only tool"
    ELSE nil

\* The order of a handler's effects: every handler calls EmitEvent right
\* after its dependency checks, and a handler that runs another handler does
\* so after its own EmitEvent and makes no call of its own before it.
EmitThenCall(emitted, calls) ==
    [i \in 1..Len(emitted) |-> [kind |-> "event", name |-> emitted[i]]]
    \o [i \in 1..Len(calls) |-> [kind |-> "call", name |-> calls[i].op]]

\* What a handler leaves behind: its result, the calls it made, the events
\* it emitted, and the order of the two.
Outcome(isError, text, calls, emitted) ==
    [result |-> [isError |-> isError, err |-> nil, text |-> text],
     dbCalls |-> calls, events |-> emitted,
     trace |-> EmitThenCall(emitted, calls)]

ErrorOutcome(msg, calls, emitted) == Outcome(TRUE, msg, calls, emitted)
TextOutcome(text, calls, emitted) == Outcome(FALSE, text, calls, emitted)

DBCall(op, query, params) == [op |-> op, query |-> query, params |-> params]

\* handleDynamicTool of handler.go.  req.config is the tool's ToolConfig
\* (Name, Description, Execution: nil or its Mode); req.fault is what goes
\* wrong in the environment: "bind" (BindArguments), "query" (the driver),
\* "json" (Neo4jRecordsToJSON) or "none".
handleDynamicTool(req) ==
    IF ~req.analytics THEN ErrorOutcome("Analytics service is not initialized", <<>>, <<>>)
    ELSE LET ev == <<req.config.Name>> IN
    IF req.config.Execution = nil THEN TextOutcome(req.config.Description, <<>>, ev)
    ELSE IF ~req.db THEN ErrorOutcome("Database service is not initialized", <<>>, ev)
    ELSE IF req.fault = "bind" THEN ErrorOutcome("bind error", <<>>, ev)
    ELSE IF req.args.Query = <<>> THEN ErrorOutcome("query parameter is required", <<>>, ev)
    ELSE IF validateQueryMode(req.args.Query, req.config.Execution) # nil
         THEN ErrorOutcome(validateQueryMode(req.args.Query, req.config.Execution), <<>>, ev)
    ELSE LET call == DBCall(IF req.config.Execution = "read"
                            THEN "ExecuteReadQuery" ELSE "ExecuteWriteQuery",
                            req.args.Query, req.args.Params)
         IN
         IF req.fault = "query" THEN ErrorOutcome("driver error", <<call>>, ev)
         ELSE IF req.fault = "json"
              THEN ErrorOutcome("marshal error",
                                <<call, DBCall("Neo4jRecordsToJSON", <<>>, {})>>, ev)
         ELSE TextOutcome("records as JSON",
                          <<call, DBCall("Neo4jRecordsToJSON", <<>>, {})>>, ev)

\* Pieces of Cypher text from which the submitted queries are put together.
MaxChunks == 3

QueryChunks ==
    { <<"C", "R", "E", "A", "T", "E">>,
      <<"M", "E", "R", "G", "E">>,
      <<"D", "E", "L", "E", "T", "E">>,
      <<"R", "E", "M", "O", "V", "E">>,
      <<"S", "E", "T">>,
      <<"D", "R", "O", "P">>,
      <<"D", "E", "T", "A", "C", "H">>,
      <<"s", "e", "t">>,
      <<"S", "H", "O", "W">>,
      <<" ">>,
      <<"\n">>,
      <<"(">> }

Queries == {Concat(cks) : cks \in SeqsUpTo(QueryChunks, MaxChunks)}

Faults == {"none", "bind", "query", "json"}

DynamicConfigs ==
    {[Name |-> "run-query", Description |-> "d", Execution |-> m] :
        m \in {nil, "read", "write"}}

DynamicRequest(a, d, f, c, q) ==
    [tool |-> "dynamic", analytics |-> a, db |-> d, fault |-> f, config |-> c,
     args |-> [Query |-> q, Params |-> {}]]

Idle ==
    /\ config = [ReadOnly |-> FALSE, gdsInstalled |-> FALSE]
    /\ embeddedFS = [available |-> FALSE, files |-> <<>>]
    /\ osFS = [exists |-> FALSE, files |-> <<>>]
    /\ registry = NewToolRegistry
    /\ mcpTools = <<>>
    /\ startErr = nil

InitDynamic ==
    /\ phase = "called"
    /\ Idle
    /\ \E a \in BOOLEAN, d \in BOOLEAN, f \in Faults, c \in DynamicConfigs,
          q \in Queries :
           request = DynamicRequest(a, d, f, c, q)
    /\ result = NoResult
    /\ dbCalls = <<>>
    /\ events = <<>>
    /\ builtQuery = <<>>
    /\ matchBuilder = [clauses |-> <<>>, varCounter |-> 0]
    /\ returned = <<>>
    /\ schemaItems = <<>>
    /\ markdown = <<>>
    /\ trace = <<>>

Serve(outcome) ==
    /\ result' = outcome.result
    /\ dbCalls' = outcome.dbCalls
    /\ events' = outcome.events
    /\ trace' = outcome.trace
    /\ phase' = "done"
    /\ UNCHANGED <<config, embeddedFS, osFS, registry, mcpTools, startErr, request, builtQuery,
                   matchBuilder, returned,
                   schemaItems, markdown>>

CallDynamicTool ==
    /\ phase = "called"
    /\ request.tool = "dynamic"
    /\ Serve(handleDynamicTool(request))

NextDynamic == CallDynamicTool

SpecDynamic == InitDynamic /\ [][NextDynamic]_vars

\* Case-insensitive occurrence of one of the seven write tokens in text.
WriteTokens ==
    {KwCreate, KwMerge, KwDelete, KwRemove, KwSet, KwDrop, KwDetachDelete}

ContainsWriteToken(text) ==
    \E tok \in WriteTokens :
        \E i \in 1..(Len(text) - Len(tok) + 1) :
            \A k \in 1..Len(tok) :
                text[i + k - 1] = tok[k] \/ text[i + k - 1] = ToLowerChar(tok[k])

ReadModeCallDone ==
    /\ phase = "done"
    /\ request.tool = "dynamic"
    /\ request.config.Execution = "read"

NoQueryRun ==
    \A i \in 1..Len(dbCalls) :
        dbCalls[i].op \notin {"ExecuteReadQuery", "ExecuteWriteQuery"}

IsWordChar(c) == IsLower(c) \/ IsUpper(c) \/ c \in {"0", "1", "2", "3", "4", "5", "6", "7", "8", "9", "_"}

WriteClauseWords ==
    { <<"C", "R", "E", "A", "T", "E">>,
      <<"M", "E", "R", "G", "E">>,
      <<"D", "E", "L", "E", "T", "E">>,
      <<"R", "E", "M", "O", "V", "E">>,
      <<"S", "E", "T">>,
      <<"D", "R", "O", "P">> }

\* word occurs in text as a whole word, in any letter case, whatever
\* white space or punctuation follows it.
HasWord(text, word) ==
    \E i \in 1..(Len(text) - Len(word) + 1) :
        /\ ToUpper(SubSeq(text, i, i + Len(word) - 1)) = word
        /\ (i = 1 \/ ~IsWordChar(text[i - 1]))
        /\ (i + Len(word) > Len(text) \/ ~IsWordChar(text[i + Len(word)]))

HasWriteClause(text) == \E w \in WriteClauseWords : HasWord(text, w)

\* An administrative command: the statement starts with SHOW.
IsAdminCommand(text) ==
    LET t == ToUpper(TrimSpace(text)) IN
    /\ Len(t) >= 4
    /\ SubSeq(t, 1, 4) = <<"S", "H", "O", "W">>
    /\ (Len(t) = 4 \/ ~IsWordChar(t[5]))

\* C3: a query with a write clause (whatever follows the keyword) or an
\* administrative command is never run by a read-mode tool: it is classified
\* as non-read.
C3_WriteNeverPassesAsRead ==
    (ReadModeCallDone
       /\ request.analytics /\ request.db /\ request.fault = "none"
       /\ (HasWriteClause(request.args.Query) \/ IsAdminCommand(request.args.Query))) =>
        (validateQueryMode(request.args.Query, "read") # nil /\ NoQueryRun)


\* ------------------------------------------------------------------------
\* Query builder kit (internal/tools/cypher/query_builder/builder.go)
\* ------------------------------------------------------------------------
DigitChars == <<"0", "1", "2", "3", "4", "5", "6", "7", "8", "9">>

\* fmt's %d of a non-negative integer
RECURSIVE FormatInt(_)
FormatInt(n) ==
    IF n < 10 THEN <<DigitChars[n + 1]>>
    ELSE FormatInt(n \div 10) \o <<DigitChars[(n % 10) + 1]>>

\* strings.ReplaceAll(s, "-", "_")
ReplaceDashes(s) == [i \in 1..Len(s) |-> IF s[i] = "-" THEN "_" ELSE s[i]]

\* Number of places at which sub occurs in s.
Occurrences(s, sub) ==
    Cardinality({i \in 1..(Len(s) - Len(sub) + 1) :
                     SubSeq(s, i, i + Len(sub) - 1) = sub})

NewOptionalMatchBuilder == [clauses |-> <<>>, varCounter |-> 0]

\* "OPTIONAL MATCH (%s)-[:%s]->(%s:%s)"
AttributeMatchClause(sourceVar, mapping, varName) ==
    Concat(<< <<"O", "P", "T", "I", "O", "N", "A", "L", " ", "M", "A", "T", "C", "H", " ", "(">>, sourceVar,
              <<")", "-", "[", ":">>, mapping.RelationshipType,
              <<"]", "-", ">", "(">>, varName, <<":">>, mapping.TargetLabel, <<")">> >>)

\* "attr%d"
AttrVarName(n) == <<"a", "t", "t", "r">> \o FormatInt(n)

\* Mutant of AddAttributeMatch: the counter is not advanced.
AddAttributeMatch_sameVar(b, sourceVar, mapping) ==
    LET varName == AttrVarName(b.varCounter) IN
    [builder |-> [clauses |-> Append(b.clauses,
                                     AttributeMatchClause(sourceVar, mapping, varName)),
                  varCounter |-> b.varCounter],
     varName |-> varName]

\* OptionalMatchBuilder.AddAttributeMatch: [builder, varName].
AddAttributeMatch(b, sourceVar, mapping) ==
    LET varName == AttrVarName(b.varCounter) IN
    [builder |-> [clauses |-> Append(b.clauses,
                                     AttributeMatchClause(sourceVar, mapping, varName)),
                  varCounter |-> b.varCounter + 1],
     varName |-> varName]

\* OptionalMatchBuilder.Build: the clauses joined by newlines.
Build(b) == Join(b.clauses, <<"\n">>)

GetClauseCount(b) == Len(b.clauses)

\* The category a mapping is filed under.
CategoryOf(mapping) ==
    IF mapping.AttributeCategory = <<>> THEN <<"o", "t", "h", "e", "r", "_", "a", "t", "t", "r", "i", "b", "u", "t", "e", "s">>
    ELSE mapping.AttributeCategory

\* GroupMappingsByCategory: a Go map, category -> mappings in supply order.
GroupMappingsByCategory(mappings) ==
    [c \in {CategoryOf(mappings[i]) : i \in 1..Len(mappings)} |->
        LET mine(m) == CategoryOf(m) = c IN SelectSeq(mappings, mine)]

\* ".p" for every p of props
RECURSIVE DotList(_)
DotList(props) ==
    IF Len(props) = 0 THEN <<>>
    ELSE <<(<<".">> \o props[1])>> \o DotList(Tail(props))

\* Mutant of BuildPropertyMap: the {key: var.prop} form instead of a map
\* projection.
BuildPropertyMap_plainMap(varName, mapping) ==
    Concat(<< <<"{">>, mapping.IdentifierProperty, <<":", " ">>, varName, <<".">>,
              mapping.IdentifierProperty, <<"}">> >>)

\* BuildPropertyMap: the map projection var{.id, .p1, ...}, var{.id, .*} or
\* var{.*}.
BuildPropertyMap(varName, mapping) ==
    IF Len(mapping.IncludeProperties) > 0
    THEN LET projections ==
                 (IF mapping.IdentifierProperty # <<>>
                  THEN <<(<<".">> \o mapping.IdentifierProperty)>> ELSE <<>>)
                 \o DotList(mapping.IncludeProperties)
         IN  Concat(<<varName, <<"{">>, Join(projections, <<",", " ">>), <<"}">> >>)
    ELSE IF mapping.IdentifierProperty # <<>>
         THEN Concat(<<varName, <<"{", ".">>, mapping.IdentifierProperty,
                       <<",", " ", ".", "*", "}">> >>)
    ELSE varName \o <<"{", ".", "*", "}">>


\* ------------------------------------------------------------------------
\* Profile query builder (package customer_profile, handler.go)
\* ------------------------------------------------------------------------
\* All orders in which a Go range loop may visit the keys S of a map.
Perms(S) == {p \in [1..Cardinality(S) -> S] : Range(p) = S}

\* The inner loop of lines 597-600: one AddAttributeMatch per mapping.
RECURSIVE AddMatches(_, _)
AddMatches(b, maps) ==
    IF Len(maps) = 0 THEN [builder |-> b, varNames |-> <<>>]
    ELSE LET r == AddAttributeMatch(b, <<"e">>, maps[1])
             rest == AddMatches(r.builder, Tail(maps))
         IN  [builder |-> rest.builder, varNames |-> <<r.varName>> \o rest.varNames]

\* The loop of lines 595-602 visiting the categories in the order ord.
RECURSIVE MatchCategories(_, _, _)
MatchCategories(b, ord, grouped) ==
    IF Len(ord) = 0 THEN [builder |-> b, varsByCategory |-> <<>>]
    ELSE LET r == AddMatches(b, grouped[ord[1]])
             rest == MatchCategories(r.builder, Tail(ord), grouped)
         IN  [builder |-> rest.builder,
              varsByCategory |-> (ord[1] :> r.varNames) @@ rest.varsByCategory]

\* strings.ToLower(mapping.TargetLabel) + "s"
CollectionKey(mapping) == ToLower(mapping.TargetLabel) \o <<"s">>

\* fmt.Sprintf("%s_%s", strings.ReplaceAll(category, "-", "_"), collectionKey)
CollectionAlias(category, collectionKey) ==
    ReplaceDashes(category) \o <<"_">> \o collectionKey

\* collectionAliases[category] after the loop of lines 616-631: a Go map
\* collectionKey -> alias.
CollectionAliases(category, maps) ==
    [k \in {CollectionKey(maps[i]) : i \in 1..Len(maps)} |-> CollectionAlias(category, k)]

\* ",\n     collect(DISTINCT %s) as %s" for the mappings of one category
RECURSIVE CollectLines(_, _, _, _)
CollectLines(category, maps, varNames, i) ==
    IF i > Len(maps) THEN <<>>
    ELSE Concat(<< <<",", "\n", " ", " ", " ", " ", " ", "c", "o", "l", "l", "e", "c", "t", "(", "D", "I", "S", "T", "I", "N", "C", "T", " ">>,
                   BuildPropertyMap(varNames[i], maps[i]),
                   <<")", " ", "a", "s", " ">>,
                   CollectionAlias(category, CollectionKey(maps[i])) >>)
         \o CollectLines(category, maps, varNames, i + 1)

\* The loop of lines 616-631 visiting the categories in the order ord.
RECURSIVE CollectCategories(_, _, _)
CollectCategories(ord, grouped, varsByCategory) ==
    IF Len(ord) = 0 THEN <<>>
    ELSE CollectLines(ord[1], grouped[ord[1]], varsByCategory[ord[1]], 1)
         \o CollectCategories(Tail(ord), grouped, varsByCategory)

\* "    %s: %s" per key, joined by ",\n", in the order keyOrder
RECURSIVE CollectionEntries(_, _)
CollectionEntries(collectionAliases, keyOrder) ==
    IF Len(keyOrder) = 0 THEN <<>>
    ELSE <<Concat(<< <<" ", " ", " ", " ">>, keyOrder[1], <<":", " ">>,
                     collectionAliases[keyOrder[1]] >>)>>
         \o CollectionEntries(collectionAliases, Tail(keyOrder))

\* buildCategoryReturnClauseFromCollections; keyOrder is the order in which
\* the range loop visits the map's keys.
buildCategoryReturnClauseFromCollections(category, collectionAliases, keyOrder) ==
    Concat(<< <<" ", " ">>, category, <<":", " ", "{", "\n">>,
              Join(CollectionEntries(collectionAliases, keyOrder), <<",", "\n">>),
              <<"\n", " ", " ", "}">> >>)

\* "    %s: e.%s" per base property
RECURSIVE BasePropertyEntries(_)
BasePropertyEntries(props) ==
    IF Len(props) = 0 THEN <<>>
    ELSE <<Concat(<< <<" ", " ", " ", " ">>, props[1], <<":", " ", "e", ".">>, props[1] >>)>>
         \o BasePropertyEntries(Tail(props))

\* The loop of lines 655-659 visiting the categories in the order ord.
RECURSIVE ReturnCategories(_, _, _)
ReturnCategories(ord, grouped, keyOrd) ==
    IF Len(ord) = 0 THEN <<>>
    ELSE <<",", "\n">>
         \o buildCategoryReturnClauseFromCollections(
                ord[1], CollectionAliases(ord[1], grouped[ord[1]]), keyOrd[ord[1]])
         \o ReturnCategories(Tail(ord), grouped, keyOrd)

\* Mutant of buildCustomerProfileQuery: the aggregations are written into
\* the RETURN map instead of a WITH clause.
buildCustomerProfileQuery_collectInReturn(entityConfig, mappings, ord1, ord2, ord3, keyOrd) ==
    LET grouped == GroupMappingsByCategory(mappings)
        matched == MatchCategories(NewOptionalMatchBuilder, ord1, grouped)
    IN  Concat(<<
            <<"M", "A", "T", "C", "H", " ", "(", "e", ":">>, entityConfig.NodeLabel, <<" ", "{">>,
            entityConfig.IdProperty, <<":", " ", "$", "e", "n", "t", "i", "t", "y", "I", "d", "}", ")", "\n">>,
            Build(matched.builder), <<"\n">>,
            <<"R", "E", "T", "U", "R", "N", " ", "{", "\n">>,
            <<" ", " ", "b", "a", "s", "e", "_", "d", "e", "t", "a", "i", "l", "s", ":", " ">>,
            <<"p", "r", "o", "p", "e", "r", "t", "i", "e", "s", "(", "e", ")">>,
            CollectCategories(ord2, grouped, matched.varsByCategory),
            <<"\n", "}", " ", "a", "s", " ", "e", "n", "t", "i", "t", "y", "P", "r", "o", "f", "i", "l", "e">> >>)

\* buildCustomerProfileQuery.  ord1, ord2 and ord3 are the orders in which
\* the three range loops over categorizedMappings visit the categories, and
\* keyOrd[c] the order in which the alias map of category c is visited.
buildCustomerProfileQuery(entityConfig, mappings, ord1, ord2, ord3, keyOrd) ==
    LET grouped == GroupMappingsByCategory(mappings)
        matched == MatchCategories(NewOptionalMatchBuilder, ord1, grouped)
    IN  Concat(<<
            <<"M", "A", "T", "C", "H", " ", "(", "e", ":">>, entityConfig.NodeLabel, <<" ", "{">>,
            entityConfig.IdProperty, <<":", " ", "$", "e", "n", "t", "i", "t", "y", "I", "d", "}", ")", "\n">>,
            IF GetClauseCount(matched.builder) > 0
            THEN Build(matched.builder) \o <<"\n">> ELSE <<>>,
            <<"W", "I", "T", "H", " ", "e">>,
            CollectCategories(ord2, grouped, matched.varsByCategory),
            <<"\n">>,
            <<"R", "E", "T", "U", "R", "N", " ", "{", "\n">>,
            <<" ", " ", "b", "a", "s", "e", "_", "d", "e", "t", "a", "i", "l", "s", ":", " ">>,
            IF Len(entityConfig.BaseProperties) > 0
            THEN Concat(<< <<"{", "\n">>,
                           Join(BasePropertyEntries(entityConfig.BaseProperties),
                                <<",", "\n">>),
                           <<"\n", " ", " ", "}">> >>)
            ELSE <<"p", "r", "o", "p", "e", "r", "t", "i", "e", "s", "(", "e", ")">>,
            ReturnCategories(ord3, grouped, keyOrd),
            <<"\n", "}", " ", "a", "s", " ", "e", "n", "t", "i", "t", "y", "P", "r", "o", "f", "i", "l", "e">> >>)

\* The iteration orders Go may pick while building the query for mappings.
CategoryOrders(mappings) == Perms(DOMAIN GroupMappingsByCategory(mappings))

KeyOrders(mappings) ==
    LET grouped == GroupMappingsByCategory(mappings) IN
    {ko \in [DOMAIN grouped -> UNION {Perms(DOMAIN CollectionAliases(c, grouped[c])) :
                                          c \in DOMAIN grouped}] :
        \A c \in DOMAIN grouped : ko[c] \in Perms(DOMAIN CollectionAliases(c, grouped[c]))}


\* ------------------------------------------------------------------------
\* Identity-overlap query builders (package synthetic_identity, handler.go)
\* ------------------------------------------------------------------------
\* titleCase: the first character upper-cased.
titleCase(s) == IF s = <<>> THEN s ELSE <<ToUpperChar(s[1])>> \o Tail(s)

\* "%s.%s as %s" for each display property other than the id property
RECURSIVE DisplayParts(_, _, _)
DisplayParts(entityConfig, varName, props) ==
    IF Len(props) = 0 THEN <<>>
    ELSE (IF props[1] = entityConfig.IdProperty THEN <<>>
          ELSE <<Concat(<<varName, <<".">>, props[1], <<" ", "a", "s", " ">>,
                          varName, titleCase(props[1]) >>)>>)
         \o DisplayParts(entityConfig, varName, Tail(props))

\* buildReturnClause: the id column, then the display columns or the
\* properties map.
buildReturnClause(entityConfig, varName) ==
    LET idPart == Concat(<<varName, <<".">>, entityConfig.IdProperty, <<" ", "a", "s", " ">>,
                           varName, <<"I", "d">> >>)
        returnParts ==
            <<idPart>> \o
            (IF Len(entityConfig.DisplayProperties) > 0
             THEN DisplayParts(entityConfig, varName, entityConfig.DisplayProperties)
             ELSE <<Concat(<< <<"p", "r", "o", "p", "e", "r", "t", "i", "e", "s", "(">>, varName, <<")", " ", "a", "s", " ">>,
                              varName, <<"P", "r", "o", "p", "e", "r", "t", "i", "e", "s">> >>)>>)
    IN  Join(returnParts, <<",", "\n", " ", " ", " ", " ", " ", " ", " ", " ", " ", " ", " ", " ", " ", " ", " ">>)

\* "WHEN identifier:%s THEN identifier.%s" per PII relationship
RECURSIVE CaseClauses(_)
CaseClauses(piiRelationships) ==
    IF Len(piiRelationships) = 0 THEN <<>>
    ELSE <<Concat(<< <<"W", "H", "E", "N", " ", "i", "d", "e", "n", "t", "i", "f", "i", "e", "r", ":">>, piiRelationships[1].TargetLabel,
                     <<" ", "T", "H", "E", "N", " ", "i", "d", "e", "n", "t", "i", "f", "i", "e", "r", ".">>,
                     piiRelationships[1].IdentifierProperty >>)>>
         \o CaseClauses(Tail(piiRelationships))

\* buildQueryComponents: [relPattern, caseStatement].
buildQueryComponents(piiRelationships) ==
    [relPattern |->
        Join([i \in 1..Len(piiRelationships) |-> piiRelationships[i].RelationshipType],
             <<"|">>),
     caseStatement |->
        Join(CaseClauses(piiRelationships), <<"\n", " ", " ", " ", " ", " ", " ", " ", " ", " ", " ", " ", " ", " ", " ", " ", " ", " ">>)]

\* buildInvestigationQuery
buildInvestigationQuery(entityConfig, piiRelationships) ==
    LET qc == buildQueryComponents(piiRelationships) IN
    Concat(<<
        <<"\n", "\t", "\t", "M", "A", "T", "C", "H", " ", "(", "t", "a", "r", "g", "e", "t", ":">>,
        entityConfig.NodeLabel,
        <<" ", "{">>,
        entityConfig.IdProperty,
        <<":", " ", "$", "e", "n", "t", "i", "t", "y", "I", "d", "}", ")", "\n", "\t", "\t", "M", "A", "T", "C", "H", " ", "(", "t", "a", "r", "g", "e", "t", ")", "-", "[", "r", ":">>,
        qc.relPattern,
        <<"]", "-", ">", "(", "i", "d", "e", "n", "t", "i", "f", "i", "e", "r", ")", "\n", "\t", "\t", "M", "A", "T", "C", "H", " ", "(", "i", "d", "e", "n", "t", "i", "f", "i", "e", "r", ")", "<", "-", "[", "r", "2", ":">>,
        qc.relPattern,
        <<"]", "-", "(", "o", "t", "h", "e", "r", ":">>,
        entityConfig.NodeLabel,
        <<")", "\n", "\t", "\t", "W", "H", "E", "R", "E", " ", "t", "a", "r", "g", "e", "t", ".">>,
        entityConfig.IdProperty,
        <<" ", "<", ">", " ", "o", "t", "h", "e", "r", ".">>,
        entityConfig.IdProperty,
        <<"\n", "\t", "\t", "W", "I", "T", "H", " ", "o", "t", "h", "e", "r", ",", "\n", "\t", "\t", " ", " ", " ", " ", " ", "c", "o", "l", "l", "e", "c", "t", "(", "D", "I", "S", "T", "I", "N", "C", "T", " ", "{", "\n", "\t", "\t", " ", " ", " ", " ", " ", " ", " ", " ", " ", "t", "y", "p", "e", ":", " ", "t", "y", "p", "e", "(", "r", "2", ")", ",", "\n", "\t", "\t", " ", " ", " ", " ", " ", " ", " ", " ", " ", "i", "d", "e", "n", "t", "i", "f", "i", "e", "r", ":", " ", "C", "A", "S", "E", "\n", "\t", "\t", " ", " ", " ", " ", " ", " ", " ", " ", " ", " ", " ", " ", " ">>,
        qc.caseStatement,
        <<"\n", "\t", "\t", " ", " ", " ", " ", " ", " ", " ", " ", " ", " ", " ", " ", " ", "E", "L", "S", "E", " ", "'", "U", "n", "k", "n", "o", "w", "n", "'", "\n", "\t", "\t", " ", " ", " ", " ", " ", " ", " ", " ", " ", "E", "N", "D", "\n", "\t", "\t", " ", " ", " ", " ", " ", "}", ")", " ", "a", "s", " ", "s", "h", "a", "r", "e", "d", "A", "t", "t", "r", "i", "b", "u", "t", "e", "s", "\n", "\t", "\t", "W", "H", "E", "R", "E", " ", "s", "i", "z", "e", "(", "s", "h", "a", "r", "e", "d", "A", "t", "t", "r", "i", "b", "u", "t", "e", "s", ")", " ", ">", "=", " ", "$", "m", "i", "n", "S", "h", "a", "r", "e", "d", "A", "t", "t", "r", "i", "b", "u", "t", "e", "s", "\n", "\t", "\t", "R", "E", "T", "U", "R", "N", " ">>,
        buildReturnClause(entityConfig, <<"o", "t", "h", "e", "r">>),
        <<",", "\n", "\t", "\t", " ", " ", " ", " ", " ", " ", " ", "s", "h", "a", "r", "e", "d", "A", "t", "t", "r", "i", "b", "u", "t", "e", "s", ",", "\n", "\t", "\t", " ", " ", " ", " ", " ", " ", " ", "s", "i", "z", "e", "(", "s", "h", "a", "r", "e", "d", "A", "t", "t", "r", "i", "b", "u", "t", "e", "s", ")", " ", "a", "s", " ", "s", "h", "a", "r", "e", "d", "A", "t", "t", "r", "i", "b", "u", "t", "e", "C", "o", "u", "n", "t", "\n", "\t", "\t", "O", "R", "D", "E", "R", " ", "B", "Y", " ", "s", "h", "a", "r", "e", "d", "A", "t", "t", "r", "i", "b", "u", "t", "e", "C", "o", "u", "n", "t", " ", "D", "E", "S", "C", "\n", "\t", "\t", "L", "I", "M", "I", "T", " ", "$", "l", "i", "m", "i", "t", "\n", "\t">> >>)

\* Mutant of buildDiscoveryQuery: the investigation text is returned.
buildDiscoveryQuery_withEntityId(entityConfig, piiRelationships) ==
    buildInvestigationQuery(entityConfig, piiRelationships)

\* buildDiscoveryQuery
buildDiscoveryQuery(entityConfig, piiRelationships) ==
    LET qc == buildQueryComponents(piiRelationships) IN
    Concat(<<
        <<"\n", "\t", "\t", "M", "A", "T", "C", "H", " ", "(", "e", "1", ":">>,
        entityConfig.NodeLabel,
        <<")", "-", "[", "r", "1", ":">>,
        qc.relPattern,
        <<"]", "-", ">", "(", "i", "d", "e", "n", "t", "i", "f", "i", "e", "r", ")", "<", "-", "[", "r", "2", ":">>,
        qc.relPattern,
        <<"]", "-", "(", "e", "2", ":">>,
        entityConfig.NodeLabel,
        <<")", "\n", "\t", "\t", "W", "H", "E", "R", "E", " ", "i", "d", "(", "e", "1", ")", " ", "<", " ", "i", "d", "(", "e", "2", ")", "\n", "\t", "\t", "W", "I", "T", "H", " ", "e", "1", ",", " ", "e", "2", ",", "\n", "\t", "\t", " ", " ", " ", " ", " ", "c", "o", "l", "l", "e", "c", "t", "(", "D", "I", "S", "T", "I", "N", "C", "T", " ", "{", "\n", "\t", "\t", " ", " ", " ", " ", " ", " ", " ", " ", " ", "t", "y", "p", "e", ":", " ", "t", "y", "p", "e", "(", "r", "1", ")", ",", "\n", "\t", "\t", " ", " ", " ", " ", " ", " ", " ", " ", " ", "i", "d", "e", "n", "t", "i", "f", "i", "e", "r", ":", " ", "C", "A", "S", "E", "\n", "\t", "\t", " ", " ", " ", " ", " ", " ", " ", " ", " ", " ", " ", " ", " ">>,
        qc.caseStatement,
        <<"\n", "\t", "\t", " ", " ", " ", " ", " ", " ", " ", " ", " ", " ", " ", " ", " ", "E", "L", "S", "E", " ", "'", "U", "n", "k", "n", "o", "w", "n", "'", "\n", "\t", "\t", " ", " ", " ", " ", " ", " ", " ", " ", " ", "E", "N", "D", "\n", "\t", "\t", " ", " ", " ", " ", " ", "}", ")", " ", "a", "s", " ", "s", "h", "a", "r", "e", "d", "A", "t", "t", "r", "i", "b", "u", "t", "e", "s", "\n", "\t", "\t", "W", "H", "E", "R", "E", " ", "s", "i", "z", "e", "(", "s", "h", "a", "r", "e", "d", "A", "t", "t", "r", "i", "b", "u", "t", "e", "s", ")", " ", ">", "=", " ", "$", "m", "i", "n", "S", "h", "a", "r", "e", "d", "A", "t", "t", "r", "i", "b", "u", "t", "e", "s", "\n", "\t", "\t", "W", "I", "T", "H", " ", "e", "1", ",", " ", "e", "2", ",", " ", "s", "h", "a", "r", "e", "d", "A", "t", "t", "r", "i", "b", "u", "t", "e", "s", ",", " ", "s", "i", "z", "e", "(", "s", "h", "a", "r", "e", "d", "A", "t", "t", "r", "i", "b", "u", "t", "e", "s", ")", " ", "a", "s", " ", "s", "h", "a", "r", "e", "d", "A", "t", "t", "r", "i", "b", "u", "t", "e", "C", "o", "u", "n", "t", "\n", "\t", "\t", "O", "R", "D", "E", "R", " ", "B", "Y", " ", "s", "h", "a", "r", "e", "d", "A", "t", "t", "r", "i", "b", "u", "t", "e", "C", "o", "u", "n", "t", " ", "D", "E", "S", "C", "\n", "\t", "\t", "L", "I", "M", "I", "T", " ", "$", "l", "i", "m", "i", "t", "\n", "\t", "\t", "R", "E", "T", "U", "R", "N", " ">>,
        buildReturnClause(entityConfig, <<"e", "1">>),
        <<",", "\n", "\t", "\t", " ", " ", " ", " ", " ", " ", " ">>,
        buildReturnClause(entityConfig, <<"e", "2">>),
        <<",", "\n", "\t", "\t", " ", " ", " ", " ", " ", " ", " ", "s", "h", "a", "r", "e", "d", "A", "t", "t", "r", "i", "b", "u", "t", "e", "s", ",", "\n", "\t", "\t", " ", " ", " ", " ", " ", " ", " ", "s", "h", "a", "r", "e", "d", "A", "t", "t", "r", "i", "b", "u", "t", "e", "C", "o", "u", "n", "t", "\n", "\t">> >>)


\* ------------------------------------------------------------------------
\* The query builders run on bounded inputs
\* ------------------------------------------------------------------------
MaxMappings == 2
MaxPII == 2

AttributeMapping(rel, label, idProp, include, category) ==
    [RelationshipType |-> rel, TargetLabel |-> label, IdentifierProperty |-> idProp,
     IncludeProperties |-> include, AttributeCategory |-> category]

\* Two mappings of one category, a third of the same category and target
\* label, one with a hyphenated category and one without a category.
MappingSet ==
    { AttributeMapping(<<"H", "A", "S", "_", "E", "M", "A", "I", "L">>, <<"E", "m", "a", "i", "l">>, <<"a", "d", "d", "r", "e", "s", "s">>, <<>>,
                       <<"c", "o", "n", "t", "a", "c", "t">>),
      AttributeMapping(<<"H", "A", "S", "_", "P", "H", "O", "N", "E">>, <<"P", "h", "o", "n", "e">>, <<"n", "u", "m", "b", "e", "r">>, <<<<"t", "y", "p", "e">>>>,
                       <<"c", "o", "n", "t", "a", "c", "t">>),
      AttributeMapping(<<"H", "A", "S", "_", "W", "O", "R", "K", "_", "E", "M", "A", "I", "L">>, <<"E", "m", "a", "i", "l">>, <<>>, <<>>,
                       <<"c", "o", "n", "t", "a", "c", "t">>),
      AttributeMapping(<<"H", "A", "S", "_", "S", "S", "N">>, <<"S", "S", "N">>, <<"v", "a", "l", "u", "e">>, <<>>,
                       <<"i", "d", "e", "n", "t", "i", "t", "y", "-", "d", "o", "c", "u", "m", "e", "n", "t", "s">>),
      AttributeMapping(<<"H", "A", "S", "_", "D", "E", "V", "I", "C", "E">>, <<"D", "e", "v", "i", "c", "e">>, <<>>, <<<<"o", "s">>>>, <<>>) }

\* customer_profile.EntityConfig
ProfileEntityConfigs ==
    [NodeLabel : {<<"C", "u", "s", "t", "o", "m", "e", "r">>},
     IdProperty : {<<"c", "u", "s", "t", "o", "m", "e", "r", "I", "d">>, <<"i", "d">>},
     BaseProperties : {<<>>, <<<<"n", "a", "m", "e">>>>, <<<<"n", "a", "m", "e">>, <<"i", "d">>>>}]

PIIRelationship(rel, label, idProp) ==
    [RelationshipType |-> rel, TargetLabel |-> label, IdentifierProperty |-> idProp]

PIISet ==
    { PIIRelationship(<<"H", "A", "S", "_", "E", "M", "A", "I", "L">>, <<"E", "m", "a", "i", "l">>, <<"a", "d", "d", "r", "e", "s", "s">>),
      PIIRelationship(<<"H", "A", "S", "_", "P", "H", "O", "N", "E">>, <<"P", "h", "o", "n", "e">>, <<"n", "u", "m", "b", "e", "r">>),
      PIIRelationship(<<"H", "A", "S", "_", "S", "S", "N">>, <<"S", "S", "N">>, <<"v", "a", "l", "u", "e">>) }

\* synthetic_identity.EntityConfig
OverlapEntityConfigs ==
    [NodeLabel : {<<"C", "u", "s", "t", "o", "m", "e", "r">>},
     IdProperty : {<<"c", "u", "s", "t", "o", "m", "e", "r", "I", "d">>, <<"i", "d">>},
     DisplayProperties : {<<>>, <<<<"n", "a", "m", "e">>>>, <<<<"i", "d">>, <<"n", "a", "m", "e">>>>}]

ProfileBuild(entityConfig, mappings) ==
    [kind |-> "profile", entityConfig |-> entityConfig, mappings |-> mappings]

OverlapBuild(entityConfig, piiRelationships) ==
    [kind |-> "overlap", entityConfig |-> entityConfig,
     piiRelationships |-> piiRelationships]

InitBuilder ==
    /\ phase = "called"
    /\ Idle
    /\ \/ \E ec \in ProfileEntityConfigs, ms \in SeqsUpTo(MappingSet, MaxMappings) :
              request = ProfileBuild(ec, ms)
       \/ \E ec \in OverlapEntityConfigs, ps \in SeqsUpTo(PIISet, MaxPII) :
              request = OverlapBuild(ec, ps)
    /\ result = NoResult
    /\ dbCalls = <<>>
    /\ events = <<>>
    /\ builtQuery = <<>>
    /\ matchBuilder = [clauses |-> <<>>, varCounter |-> 0]
    /\ returned = <<>>
    /\ schemaItems = <<>>
    /\ markdown = <<>>
    /\ trace = <<>>

Built(builder, text) ==
    /\ phase' = builder
    /\ builtQuery' = text
    /\ UNCHANGED <<trace, config, embeddedFS, osFS, registry, mcpTools, startErr,
                   request, result, dbCalls, events, matchBuilder, returned,
                   schemaItems, markdown>>

\* buildCustomerProfileQuery under every iteration order of its Go maps.
BuildProfileQuery ==
    /\ phase = "called"
    /\ request.kind = "profile"
    /\ \E ord1 \in CategoryOrders(request.mappings),
          ord2 \in CategoryOrders(request.mappings),
          ord3 \in CategoryOrders(request.mappings),
          keyOrd \in KeyOrders(request.mappings) :
            Built("buildCustomerProfileQuery",
                  buildCustomerProfileQuery(request.entityConfig, request.mappings,
                                            ord1, ord2, ord3, keyOrd))

BuildInvestigationQuery ==
    /\ phase = "called"
    /\ request.kind = "overlap"
    /\ Built("buildInvestigationQuery",
             buildInvestigationQuery(request.entityConfig, request.piiRelationships))

BuildDiscoveryQuery ==
    /\ phase = "called"
    /\ request.kind = "overlap"
    /\ Built("buildDiscoveryQuery",
             buildDiscoveryQuery(request.entityConfig, request.piiRelationships))

NextBuilder == BuildProfileQuery \/ BuildInvestigationQuery \/ BuildDiscoveryQuery

SpecBuilder == InitBuilder /\ [][NextBuilder]_vars


\* The positions of s at which sub starts.
Positions(s, sub) ==
    {i \in 1..(Len(s) - Len(sub) + 1) : SubSeq(s, i, i + Len(sub) - 1) = sub}

QueryBuilt ==
    phase \in {"buildCustomerProfileQuery", "buildInvestigationQuery",
               "buildDiscoveryQuery"}

MappingEmittedOnce(q, m, v) ==
    /\ Occurrences(q, AttributeMatchClause(<<"e">>, m, v) \o <<"\n">>) = 1
    /\ Occurrences(q, Concat(<< <<"c", "o", "l", "l", "e", "c", "t", "(", "D", "I", "S", "T", "I", "N", "C", "T", " ">>, BuildPropertyMap(v, m),
                                <<")", " ", "a", "s", " ">>,
                                CollectionAlias(CategoryOf(m), CollectionKey(m)) >>)) = 1

\* C10: for a non-empty list of n mappings the profile query holds n
\* OPTIONAL MATCH clauses and n collect(DISTINCT ...) aggregations, and the
\* mappings can be paired one-to-one with the variables attr0..attr(n-1) so
\* that each mapping's clause and aggregation occur exactly once.
C10_OneMatchAndOneCollectPerMapping ==
    (phase = "buildCustomerProfileQuery" /\ Len(request.mappings) > 0) =>
        LET n == Len(request.mappings)
            attrVars == {AttrVarName(k) : k \in 0..(n - 1)}
        IN  /\ Occurrences(builtQuery, <<"O", "P", "T", "I", "O", "N", "A", "L", " ", "M", "A", "T", "C", "H", " ">>) = n
            /\ Occurrences(builtQuery, <<"c", "o", "l", "l", "e", "c", "t", "(", "D", "I", "S", "T", "I", "N", "C", "T", " ">>) = n
            /\ \E f \in [1..n -> attrVars] :
                  /\ \A i, j \in 1..n : f[i] = f[j] => i = j
                  /\ \A i \in 1..n :
                        MappingEmittedOnce(builtQuery, request.mappings[i], f[i])

\* Two mappings of different categories were given and the query was built
\* with the second mapping's category visited first.
C10_Witness ==
    /\ phase = "buildCustomerProfileQuery"
    /\ Len(request.mappings) = 2
    /\ CategoryOf(request.mappings[1]) # CategoryOf(request.mappings[2])
    /\ MappingEmittedOnce(builtQuery, request.mappings[2], AttrVarName(0))
    /\ MappingEmittedOnce(builtQuery, request.mappings[1], AttrVarName(1))


\* ------------------------------------------------------------------------
\* Tool handlers
\* ------------------------------------------------------------------------
JSONCall == DBCall("Neo4jRecordsToJSON", <<>>, {})

ReadCalls(calls) == {i \in 1..Len(calls) : calls[i].op = "ExecuteReadQuery"}

\* Mutant of handleGetCustomerProfile: the attributeMappings check is gone.
handleGetCustomerProfile_noMappingsCheck(req, ord1, ord2, ord3, keyOrd) ==
    IF ~req.analytics THEN ErrorOutcome("Analytics service is not initialized", <<>>, <<>>)
    ELSE IF ~req.db THEN ErrorOutcome("Database service is not initialized", <<>>, <<>>)
    ELSE LET ev == <<"get-customer-profile">> IN
    IF req.fault = "bind" THEN ErrorOutcome("bind error", <<>>, ev)
    ELSE IF req.args.EntityId = <<>>
         THEN ErrorOutcome("entityId parameter is required", <<>>, ev)
    ELSE IF req.args.EntityConfig.NodeLabel = <<>>
         THEN ErrorOutcome("entityConfig.nodeLabel is required", <<>>, ev)
    ELSE IF req.args.EntityConfig.IdProperty = <<>>
         THEN ErrorOutcome("entityConfig.idProperty is required", <<>>, ev)
    ELSE LET call == DBCall("ExecuteReadQuery",
                            buildCustomerProfileQuery(req.args.EntityConfig,
                                                      req.args.AttributeMappings,
                                                      ord1, ord2, ord3, keyOrd),
                            [entityId |-> req.args.EntityId])
         IN
         IF req.fault = "query" THEN ErrorOutcome("driver error", <<call>>, ev)
         ELSE IF req.fault = "json" THEN ErrorOutcome("marshal error", <<call, JSONCall>>, ev)
         ELSE TextOutcome("records as JSON", <<call, JSONCall>>, ev)

\* handleGetCustomerProfile.  ord1, ord2, ord3 and keyOrd are the map
\* iteration orders met by buildCustomerProfileQuery.
handleGetCustomerProfile(req, ord1, ord2, ord3, keyOrd) ==
    IF ~req.analytics THEN ErrorOutcome("Analytics service is not initialized", <<>>, <<>>)
    ELSE IF ~req.db THEN ErrorOutcome("Database service is not initialized", <<>>, <<>>)
    ELSE LET ev == <<"get-customer-profile">> IN
    IF req.fault = "bind" THEN ErrorOutcome("bind error", <<>>, ev)
    ELSE IF req.args.EntityId = <<>>
         THEN ErrorOutcome("entityId parameter is required", <<>>, ev)
    ELSE IF req.args.EntityConfig.NodeLabel = <<>>
         THEN ErrorOutcome("entityConfig.nodeLabel is required", <<>>, ev)
    ELSE IF req.args.EntityConfig.IdProperty = <<>>
         THEN ErrorOutcome("entityConfig.idProperty is required", <<>>, ev)
    ELSE IF Len(req.args.AttributeMappings) = 0
         THEN ErrorOutcome("attributeMappings parameter is required and cannot be empty",
                           <<>>, ev)
    ELSE LET call == DBCall("ExecuteReadQuery",
                            buildCustomerProfileQuery(req.args.EntityConfig,
                                                      req.args.AttributeMappings,
                                                      ord1, ord2, ord3, keyOrd),
                            [entityId |-> req.args.EntityId])
         IN
         IF req.fault = "query" THEN ErrorOutcome("driver error", <<call>>, ev)
         ELSE IF req.fault = "json" THEN ErrorOutcome("marshal error", <<call, JSONCall>>, ev)
         ELSE TextOutcome("records as JSON", <<call, JSONCall>>, ev)

\* handleDetectSyntheticIdentity
handleDetectSyntheticIdentity(req) ==
    IF ~req.analytics THEN ErrorOutcome("Analytics service is not initialized", <<>>, <<>>)
    ELSE IF ~req.db THEN ErrorOutcome("Database service is not initialized", <<>>, <<>>)
    ELSE LET ev == <<"detect-synthetic-identity">> IN
    IF req.fault = "bind" THEN ErrorOutcome("bind error", <<>>, ev)
    ELSE IF Len(req.args.PIIRelationships) = 0
         THEN ErrorOutcome("piiRelationships parameter is required and cannot be empty",
                           <<>>, ev)
    ELSE IF req.args.EntityConfig.NodeLabel = <<>>
         THEN ErrorOutcome("entityConfig.nodeLabel is required", <<>>, ev)
    ELSE IF req.args.EntityConfig.IdProperty = <<>>
         THEN ErrorOutcome("entityConfig.idProperty is required", <<>>, ev)
    ELSE LET minShared == IF req.args.MinSharedAttributes = 0 THEN 2
                          ELSE req.args.MinSharedAttributes
             limit == IF req.args.Limit = 0 THEN 20 ELSE req.args.Limit
             isInvestigationMode == req.args.EntityId # <<>>
             call == IF isInvestigationMode
                     THEN DBCall("ExecuteReadQuery",
                                 buildInvestigationQuery(req.args.EntityConfig,
                                                         req.args.PIIRelationships),
                                 [entityId |-> req.args.EntityId,
                                  minSharedAttributes |-> minShared,
                                  limit |-> limit])
                     ELSE DBCall("ExecuteReadQuery",
                                 buildDiscoveryQuery(req.args.EntityConfig,
                                                     req.args.PIIRelationships),
                                 [minSharedAttributes |-> minShared, limit |-> limit])
         IN
         IF req.fault = "query" THEN ErrorOutcome("driver error", <<call>>, ev)
         ELSE IF req.fault = "json" THEN ErrorOutcome("marshal error", <<call, JSONCall>>, ev)
         ELSE TextOutcome("records as JSON", <<call, JSONCall>>, ev)

\* handleDynamicTool of the guidance-only dynamic package: the event is
\* emitted if there is an analytics service, and the enriched description
\* is returned in every case.
handleGuidanceTool(req) ==
    TextOutcome("enriched description", <<>>,
                IF req.analytics THEN <<req.config.Name>> ELSE <<>>)

\* deps.DBService.GetDatabaseName(): the configured database.
GetDatabaseName(req) == req.database

emptyDatabaseMessage_noName(name) ==
    <<"T", "h", "e", " ", "g", "e", "t", "-", "s", "c", "h", "e", "m", "a", " ", "t", "o", "o", "l", " ", "e", "x", "e", "c", "u", "t", "e", "d", " ", "s", "u", "c", "c", "e", "s", "s", "f", "u", "l", "l", "y", ";", " ", "h", "o", "w", "e", "v", "e", "r", ",", " ", "s", "i", "n", "c", "e", " ", "t", "h", "e", " ", "N", "e", "o", "4", "j", " ", "d", "a", "t", "a", "b", "a", "s", "e", " ", "c", "o", "n", "t", "a", "i", "n", "s", " ", "n", "o", " ", "d", "a", "t", "a", ",", " ", "n", "o", " ", "s", "c", "h", "e", "m", "a", " ", "i", "n", "f", "o", "r", "m", "a", "t", "i", "o", "n", " ", "w", "a", "s", " ", "r", "e", "t", "u", "r", "n", "e", "d", ".">>

\* The text returned for an empty database (fmt.Sprintf with the database
\* name between single quotes).
emptyDatabaseMessage(name) ==
    Concat(<<<<"T", "h", "e", " ", "g", "e", "t", "-", "s", "c", "h", "e", "m", "a", " ", "t", "o", "o", "l", " ", "e", "x", "e", "c", "u", "t", "e", "d", " ", "s", "u", "c", "c", "e", "s", "s", "f", "u", "l", "l", "y", ";", " ", "h", "o", "w", "e", "v", "e", "r", ",", " ", "s", "i", "n", "c", "e", " ", "t", "h", "e", " ", "N", "e", "o", "4", "j", " ", "d", "a", "t", "a", "b", "a", "s", "e", " ", "'">>,
             name,
             <<"'", " ", "c", "o", "n", "t", "a", "i", "n", "s", " ", "n", "o", " ", "d", "a", "t", "a", ",", " ", "n", "o", " ", "s", "c", "h", "e", "m", "a", " ", "i", "n", "f", "o", "r", "m", "a", "t", "i", "o", "n", " ", "w", "a", "s", " ", "r", "e", "t", "u", "r", "n", "e", "d", ".">>>>)

\* handleGetSchema.  req.visEmpty: the visualization procedure returned no
\* records; req.nodeCount: the answer of the node-count query; req.fault
\* names the step that fails.
handleGetSchema(req) ==
    IF ~req.db THEN ErrorOutcome("database service is not initialized", <<>>, <<>>)
    ELSE IF ~req.analytics
         THEN ErrorOutcome("analytics service is not initialized", <<>>, <<>>)
    ELSE LET ev == <<"get-schema">>
             vis == DBCall("ExecuteReadQuery", "schemaVisualizationQuery", nil)
             count == DBCall("ExecuteReadQuery", "MATCH (n) RETURN count(n) as nodeCount", nil)
             nodeProps == DBCall("ExecuteReadQuery", "nodePropertiesQuery", nil)
             relProps == DBCall("ExecuteReadQuery", "relPropertiesQuery", nil)
         IN
    IF req.fault = "visualization" THEN ErrorOutcome("driver error", <<vis>>, ev)
    ELSE IF req.visEmpty
         THEN IF req.fault = "count"
              THEN ErrorOutcome("schema visualization returned no records and verification failed",
                                <<vis, count>>, ev)
              ELSE IF req.nodeCount > 0
                   THEN ErrorOutcome("Internal error: database contains nodes but schema visualization failed",
                                     <<vis, count>>, ev)
              ELSE TextOutcome(emptyDatabaseMessage(GetDatabaseName(req)),
                               <<vis, count>>, ev)
    ELSE IF req.fault = "nodeProps" THEN ErrorOutcome("driver error", <<vis, nodeProps>>, ev)
    ELSE IF req.fault = "relProps"
         THEN ErrorOutcome("driver error", <<vis, nodeProps, relProps>>, ev)
    ELSE IF req.fault = "process"
         THEN ErrorOutcome("schema processing error", <<vis, nodeProps, relProps>>, ev)
    ELSE TextOutcome("schema markdown", <<vis, nodeProps, relProps>>, ev)

\* handleGetReferenceModels.  req.fetched: the default URLs whose download
\* succeeded.
handleGetReferenceModels(req) ==
    IF ~req.analytics
    THEN ErrorOutcome("analytics service is not initialized", <<>>, <<>>)
    ELSE LET ev == <<"get-data-models">> IN
    IF req.fetched = {}
    THEN ErrorOutcome("Failed to fetch reference models from Neo4j", <<>>, ev)
    ELSE TextOutcome("reference models", <<>>, ev)

\* handleEnrichSchema: the raw schema comes from GetSchemaHandler; a
\* BindArguments failure is logged and the defaults are used.
handleEnrichSchema(req) ==
    IF ~req.db THEN ErrorOutcome("database service is not initialized", <<>>, <<>>)
    ELSE IF ~req.analytics
         THEN ErrorOutcome("analytics service is not initialized", <<>>, <<>>)
    ELSE LET raw == handleGetSchema(req)
             ev == <<"enrich-schema">> \o raw.events
         IN
    IF raw.result.isError THEN ErrorOutcome(raw.result.text, raw.dbCalls, ev)
    ELSE IF req.fault = "json" THEN ErrorOutcome("marshal error", raw.dbCalls, ev)
    ELSE TextOutcome("enrichment request", raw.dbCalls, ev)


\* ------------------------------------------------------------------------
\* One tool invocation
\* ------------------------------------------------------------------------
EmailMapping ==
    AttributeMapping(<<"H", "A", "S", "_", "E", "M", "A", "I", "L">>, <<"E", "m", "a", "i", "l">>, <<"a", "d", "d", "r", "e", "s", "s">>, <<>>,
                     <<"c", "o", "n", "t", "a", "c", "t">>)

SSNMapping ==
    AttributeMapping(<<"H", "A", "S", "_", "S", "S", "N">>, <<"S", "S", "N">>, <<"v", "a", "l", "u", "e">>, <<>>,
                     <<"i", "d", "e", "n", "t", "i", "t", "y", "-", "d", "o", "c", "u", "m", "e", "n", "t", "s">>)

EmailPII == PIIRelationship(<<"H", "A", "S", "_", "E", "M", "A", "I", "L">>, <<"E", "m", "a", "i", "l">>, <<"a", "d", "d", "r", "e", "s", "s">>)

PhonePII == PIIRelationship(<<"H", "A", "S", "_", "P", "H", "O", "N", "E">>, <<"P", "h", "o", "n", "e">>, <<"n", "u", "m", "b", "e", "r">>)

EntityIds == {<<>>, <<"C", "1">>}
NodeLabels == {<<>>, <<"C", "u", "s", "t", "o", "m", "e", "r">>}
IdProperties == {<<>>, <<"c", "u", "s", "t", "o", "m", "e", "r", "I", "d">>}
MappingLists == {<<>>, <<EmailMapping>>, <<EmailMapping, SSNMapping>>}
PIILists == {<<>>, <<EmailPII>>, <<EmailPII, PhonePII>>}
MinSharedValues == {-1, 0, 3}
LimitValues == {0, 5}
SchemaFaults == {"none", "visualization", "count", "nodeProps", "relProps", "process"}
NodeCounts == {0, 1}
DatabaseNames == {<<"n", "e", "o", "4", "j">>, <<"f", "r", "a", "u", "d">>}
ReferenceModelURLs == {"transaction-base-model.txt", "fraud-event-sequence-model.txt"}
GuidanceConfigs ==
    {[Name |-> n, Description |-> "d"] :
        n \in {"get-sar-report-guidance", "generate-search-phrase"}}
SubmittedQueries == {<<>>, <<"S", "E", "T", " ">>, <<"R", "E", "T", "U", "R", "N", " ", "1">>, <<"C", "R", "E", "A", "T", "E", " ", "(", "n", ")">>}

ProfileRequest(a, d, f, id, label, idProp, mappings) ==
    [tool |-> "get-customer-profile", analytics |-> a, db |-> d, fault |-> f,
     args |-> [EntityId |-> id,
               EntityConfig |-> [NodeLabel |-> label, IdProperty |-> idProp,
                                 BaseProperties |-> <<>>],
               AttributeMappings |-> mappings]]

OverlapRequest(a, d, f, id, label, idProp, pii, minShared, limit) ==
    [tool |-> "detect-synthetic-identity", analytics |-> a, db |-> d, fault |-> f,
     args |-> [EntityId |-> id,
               EntityConfig |-> [NodeLabel |-> label, IdProperty |-> idProp,
                                 DisplayProperties |-> <<>>],
               PIIRelationships |-> pii,
               MinSharedAttributes |-> minShared, Limit |-> limit]]

GuidanceRequest(a, d, c) ==
    [tool |-> "guidance", analytics |-> a, db |-> d, fault |-> "none", config |-> c]

SchemaRequest(a, d, f, empty, n, name) ==
    [tool |-> "get-schema", analytics |-> a, db |-> d, fault |-> f,
     visEmpty |-> empty, nodeCount |-> n, database |-> name]

ReferenceModelsRequest(a, d, fetched) ==
    [tool |-> "get-data-models", analytics |-> a, db |-> d, fault |-> "none",
     fetched |-> fetched]

EnrichRequest(a, d, f, empty, n, name, fetched) ==
    [tool |-> "enrich-schema", analytics |-> a, db |-> d, fault |-> f,
     visEmpty |-> empty, nodeCount |-> n, database |-> name, fetched |-> fetched]

Init ==
    /\ phase = "called"
    /\ Idle
    /\ \E a \in BOOLEAN, d \in BOOLEAN :
          \/ \E f \in Faults, id \in EntityIds, label \in NodeLabels,
                idProp \in IdProperties, ms \in MappingLists :
                  request = ProfileRequest(a, d, f, id, label, idProp, ms)
          \/ \E f \in Faults, id \in EntityIds, label \in NodeLabels,
                idProp \in IdProperties, ps \in PIILists,
                minShared \in MinSharedValues, limit \in LimitValues :
                  request = OverlapRequest(a, d, f, id, label, idProp, ps, minShared, limit)
          \/ \E c \in GuidanceConfigs : request = GuidanceRequest(a, d, c)
          \/ \E f \in SchemaFaults, empty \in BOOLEAN, n \in NodeCounts,
                name \in DatabaseNames :
                  request = SchemaRequest(a, d, f, empty, n, name)
          \/ \E fetched \in SUBSET ReferenceModelURLs :
                  request = ReferenceModelsRequest(a, d, fetched)
          \/ \E f \in SchemaFaults \cup {"bind", "json"}, empty \in BOOLEAN,
                n \in NodeCounts, name \in DatabaseNames,
                fetched \in SUBSET ReferenceModelURLs :
                  request = EnrichRequest(a, d, f, empty, n, name, fetched)
          \/ \E f \in Faults, c \in DynamicConfigs, q \in SubmittedQueries :
                  request = DynamicRequest(a, d, f, c, q)
    /\ result = NoResult
    /\ dbCalls = <<>>
    /\ events = <<>>
    /\ builtQuery = <<>>
    /\ matchBuilder = [clauses |-> <<>>, varCounter |-> 0]
    /\ returned = <<>>
    /\ schemaItems = <<>>
    /\ markdown = <<>>
    /\ trace = <<>>

CallGetCustomerProfile ==
    /\ phase = "called"
    /\ request.tool = "get-customer-profile"
    /\ \E ord1 \in CategoryOrders(request.args.AttributeMappings),
          ord2 \in CategoryOrders(request.args.AttributeMappings),
          ord3 \in CategoryOrders(request.args.AttributeMappings),
          keyOrd \in KeyOrders(request.args.AttributeMappings) :
            Serve(handleGetCustomerProfile(request, ord1, ord2, ord3, keyOrd))

CallDetectSyntheticIdentity ==
    /\ phase = "called"
    /\ request.tool = "detect-synthetic-identity"
    /\ Serve(handleDetectSyntheticIdentity(request))

CallGuidanceTool ==
    /\ phase = "called"
    /\ request.tool = "guidance"
    /\ Serve(handleGuidanceTool(request))

CallGetSchema ==
    /\ phase = "called"
    /\ request.tool = "get-schema"
    /\ Serve(handleGetSchema(request))

CallGetReferenceModels ==
    /\ phase = "called"
    /\ request.tool = "get-data-models"
    /\ Serve(handleGetReferenceModels(request))

CallEnrichSchema ==
    /\ phase = "called"
    /\ request.tool = "enrich-schema"
    /\ Serve(handleEnrichSchema(request))

Next ==
    \/ CallGetCustomerProfile
    \/ CallDetectSyntheticIdentity
    \/ CallGuidanceTool
    \/ CallGetSchema
    \/ CallGetReferenceModels
    \/ CallEnrichSchema
    \/ CallDynamicTool

Spec == Init /\ [][Next]_vars

\* The request lacks one of the inputs its tool requires.
RequiredInputMissing ==
    \/ /\ request.tool = "get-customer-profile"
       /\ \/ request.args.EntityId = <<>>
          \/ request.args.EntityConfig.NodeLabel = <<>>
          \/ request.args.EntityConfig.IdProperty = <<>>
          \/ Len(request.args.AttributeMappings) = 0
    \/ /\ request.tool = "detect-synthetic-identity"
       /\ \/ Len(request.args.PIIRelationships) = 0
          \/ request.args.EntityConfig.NodeLabel = <<>>
          \/ request.args.EntityConfig.IdProperty = <<>>

\* C6: a profile or overlap invocation that lacks a required input ends in
\* an error result and makes no ExecuteReadQuery call.
C6_MissingInputRejectedBeforeQuery ==
    (phase = "done" /\ RequiredInputMissing) =>
        /\ result.isError
        /\ ReadCalls(dbCalls) = {}

\* Both services are present, binding works, and only attributeMappings is
\* empty: the profile handler has answered with an error.
C6_Witness ==
    /\ phase = "done"
    /\ request.tool = "get-customer-profile"
    /\ request.analytics /\ request.db /\ request.fault = "none"
    /\ request.args.EntityId # <<>>
    /\ request.args.EntityConfig.NodeLabel # <<>>
    /\ request.args.EntityConfig.IdProperty # <<>>
    /\ Len(request.args.AttributeMappings) = 0
    /\ result.isError
    /\ events = <<"get-customer-profile">>

\* C7: an invocation made without a telemetry service ends in an error
\* result, runs no query and returns no guidance text.
C7_NilTelemetryIsDependencyError ==
    (phase = "done" /\ ~request.analytics) =>
        /\ result.isError
        /\ dbCalls = <<>>
        /\ result.text # "enriched description"

\* Something went wrong in the invocation: a dependency is missing, a
\* required input is missing, or the injected fault lies on the path taken.
NeedsDB ==
    \/ request.tool \in {"get-customer-profile", "detect-synthetic-identity",
                         "get-schema", "enrich-schema"}
    \/ request.tool = "dynamic" /\ request.config.Execution # nil

BindsArguments ==
    \/ request.tool \in {"get-customer-profile", "detect-synthetic-identity",
                         "enrich-schema"}
    \/ request.tool = "dynamic" /\ request.config.Execution # nil

SchemaStepFails ==
    /\ request.tool \in {"get-schema", "enrich-schema"}
    /\ \/ request.fault = "visualization"
       \/ request.visEmpty /\ request.fault = "count"
       \/ ~request.visEmpty /\ request.fault \in {"nodeProps", "relProps", "process"}

FailureOccurred ==
    \/ ~request.analytics
    \/ NeedsDB /\ ~request.db
    \/ BindsArguments /\ request.fault = "bind"
    \/ RequiredInputMissing
    \/ SchemaStepFails
    \/ BindsArguments /\ request.fault \in {"query", "json"}

\* C8: every invocation returns a nil Go error, and an invocation in which
\* a dependency, the binding, the validation, a query or the serialisation
\* failed returns a result with isError set.
C8_FailuresAreErrorResults ==
    phase = "done" =>
        /\ result.err = nil
        /\ FailureOccurred => result.isError


\* ------------------------------------------------------------------------
\* Order and determinism of the profile query
\* ------------------------------------------------------------------------
\* The entry "    key: alias" written into the RETURN map for mapping m.
ReturnEntry(m) ==
    Concat(<< <<" ", " ", " ", " ">>, CollectionKey(m), <<":", " ">>,
              CollectionAlias(CategoryOf(m), CollectionKey(m)) >>)

\* Mapping i is the first of its category to use its collection key.
FirstOfKey(ms, i) ==
    \A k \in 1..(i - 1) :
        ~(CategoryOf(ms[k]) = CategoryOf(ms[i]) /\ CollectionKey(ms[k]) = CollectionKey(ms[i]))

BaseDetailsFirst ==
    Positions(builtQuery, <<"R", "E", "T", "U", "R", "N", " ", "{", "\n", " ", " ", "b", "a", "s", "e", "_", "d", "e", "t", "a", "i", "l", "s", ":", " ">>) # {}

\* C11: base_details is the first entry of the RETURN map, and the keys of a
\* category stand in the map in the order in which their mappings were
\* supplied.
C11_ReturnMapInSupplyOrder ==
    phase = "buildCustomerProfileQuery" =>
        /\ BaseDetailsFirst
        /\ \A i, j \in 1..Len(request.mappings) :
              (/\ i < j
               /\ CategoryOf(request.mappings[i]) = CategoryOf(request.mappings[j])
               /\ CollectionKey(request.mappings[i]) # CollectionKey(request.mappings[j])
               /\ FirstOfKey(request.mappings, i)
               /\ FirstOfKey(request.mappings, j)) =>
                  \A p \in Positions(builtQuery, ReturnEntry(request.mappings[i])),
                     q \in Positions(builtQuery, ReturnEntry(request.mappings[j])) : p < q


\* C12: the query a profile invocation runs is the one every invocation with
\* the same arguments runs: whatever order the builder's maps are visited
\* in, the same text comes out.
C12_ProfileQueryDeterministic ==
    (/\ phase = "done"
     /\ request.tool = "get-customer-profile"
     /\ ReadCalls(dbCalls) # {}) =>
        \A ord1 \in CategoryOrders(request.args.AttributeMappings),
           ord2 \in CategoryOrders(request.args.AttributeMappings),
           ord3 \in CategoryOrders(request.args.AttributeMappings),
           keyOrd \in KeyOrders(request.args.AttributeMappings) :
             dbCalls[1].query =
                 buildCustomerProfileQuery(request.args.EntityConfig,
                                           request.args.AttributeMappings,
                                           ord1, ord2, ord3, keyOrd)


\* ------------------------------------------------------------------------
\* One OptionalMatchBuilder instance under any sequence of calls
\* ------------------------------------------------------------------------
MaxCalls == 4

PathSpecification(rel, dir, label, minHops, maxHops) ==
    [RelationshipType |-> rel, Direction |-> dir, TargetLabel |-> label,
     MinHops |-> minHops, MaxHops |-> maxHops]

\* Mutant of HopSpec: a range is written whenever a bound is given.
HopSpec_alwaysRange(path) ==
    IF path.MinHops > 0 \/ path.MaxHops > 0
    THEN Concat(<< <<"*">>, FormatInt(path.MinHops), <<".", ".">>,
                   FormatInt(path.MaxHops) >>)
    ELSE <<>>

\* The hop specifier of AddPathMatch.
HopSpec(path) ==
    IF path.MinHops > 0 \/ path.MaxHops > 0
    THEN IF path.MinHops = path.MaxHops /\ path.MinHops > 0
         THEN <<"*">> \o FormatInt(path.MinHops)
         ELSE IF path.MaxHops > 0
              THEN IF path.MinHops > 0
                   THEN Concat(<< <<"*">>, FormatInt(path.MinHops), <<".", ".">>,
                                  FormatInt(path.MaxHops) >>)
                   ELSE <<"*", ".", ".">> \o FormatInt(path.MaxHops)
         ELSE IF path.MinHops > 0
              THEN Concat(<< <<"*">>, FormatInt(path.MinHops), <<".", ".">> >>)
         ELSE <<>>
    ELSE <<>>

\* The clause of AddPathMatch for each direction; "out" is the default.
PathMatchClause(sourceVar, path, varName) ==
    LET head == Concat(<< <<"O", "P", "T", "I", "O", "N", "A", "L", " ", "M", "A", "T", "C", "H", " ", "(">>, sourceVar >>)
        rel == Concat(<< <<"[", ":">>, path.RelationshipType, HopSpec(path), <<"]">> >>)
        target == Concat(<< <<"(">>, varName, <<":">>, path.TargetLabel, <<")">> >>)
    IN  IF path.Direction = "in"
        THEN Concat(<<head, <<")", "<", "-">>, rel, <<"-">>, target>>)
        ELSE IF path.Direction = "both"
             THEN Concat(<<head, <<")", "-">>, rel, <<"-">>, target>>)
        ELSE Concat(<<head, <<")", "-">>, rel, <<"-", ">">>, target>>)

\* "path%d"
PathVarName(n) == <<"p", "a", "t", "h">> \o FormatInt(n)

\* Mutant of AddPathMatch: the counter is not advanced.
AddPathMatch_noAdvance(b, sourceVar, path) ==
    LET varName == PathVarName(b.varCounter) IN
    [builder |-> [clauses |-> Append(b.clauses, PathMatchClause(sourceVar, path, varName)),
                  varCounter |-> b.varCounter],
     varName |-> varName]

\* OptionalMatchBuilder.AddPathMatch: [builder, varName].
AddPathMatch(b, sourceVar, path) ==
    LET varName == PathVarName(b.varCounter) IN
    [builder |-> [clauses |-> Append(b.clauses, PathMatchClause(sourceVar, path, varName)),
                  varCounter |-> b.varCounter + 1],
     varName |-> varName]

\* OptionalMatchBuilder.AddCustomMatch: the builder afterwards.
AddCustomMatch(b, clause) ==
    [clauses |-> Append(b.clauses, <<"O", "P", "T", "I", "O", "N", "A", "L", " ", "M", "A", "T", "C", "H", " ">> \o clause),
     varCounter |-> b.varCounter]

PathSet ==
    { PathSpecification(<<"K", "N", "O", "W", "S">>, "out", <<"P", "e", "r", "s", "o", "n">>, 0, 0),
      PathSpecification(<<"K", "N", "O", "W", "S">>, "in", <<"P", "e", "r", "s", "o", "n">>, 2, 2),
      PathSpecification(<<"T", "R", "A", "N", "S", "A", "C", "T", "I", "O", "N">>, "both", <<"A", "c", "c", "o", "u", "n", "t">>, 1, 3),
      PathSpecification(<<"K", "N", "O", "W", "S">>, "", <<"P", "e", "r", "s", "o", "n">>, 0, 2),
      PathSpecification(<<"T", "R", "A", "N", "S", "A", "C", "T", "I", "O", "N">>, "out", <<"A", "c", "c", "o", "u", "n", "t">>, 1, 0) }

CustomClauses == {<<"(", "c", ")", "-", "[", ":", "O", "W", "N", "S", "]", "-", ">", "(", "d", ":", "D", "e", "v", "i", "c", "e", ")">>}

Call(op, value) == [op |-> op, value |-> value]

InitMatchBuilder ==
    /\ phase = "building"
    /\ Idle
    /\ request = NoRequest
    /\ result = NoResult
    /\ dbCalls = <<>>
    /\ events = <<>>
    /\ builtQuery = <<>>
    /\ matchBuilder = NewOptionalMatchBuilder
    /\ returned = <<>>
    /\ schemaItems = <<>>
    /\ markdown = <<>>
    /\ trace = <<>>

BuilderCalled(b, op, value) ==
    /\ phase = "building"
    /\ Len(returned) < MaxCalls
    /\ matchBuilder' = b
    /\ returned' = Append(returned, Call(op, value))
    /\ UNCHANGED <<trace, phase, config, embeddedFS, osFS, registry, mcpTools, startErr,
                   request, result, dbCalls, events, builtQuery,
                   schemaItems, markdown>>

CallAddAttributeMatch ==
    \E mapping \in {EmailMapping, SSNMapping} :
        LET r == AddAttributeMatch(matchBuilder, <<"c">>, mapping) IN
        BuilderCalled(r.builder, "AddAttributeMatch", r.varName)

CallAddPathMatch ==
    \E path \in PathSet :
        LET r == AddPathMatch(matchBuilder, <<"c">>, path) IN
        BuilderCalled(r.builder, "AddPathMatch", r.varName)

CallAddCustomMatch ==
    \E clause \in CustomClauses :
        BuilderCalled(AddCustomMatch(matchBuilder, clause), "AddCustomMatch", nil)

CallBuild == BuilderCalled(matchBuilder, "Build", Build(matchBuilder))

CallGetClauseCount ==
    BuilderCalled(matchBuilder, "GetClauseCount", GetClauseCount(matchBuilder))

NextMatchBuilder ==
    \/ CallAddAttributeMatch
    \/ CallAddPathMatch
    \/ CallAddCustomMatch
    \/ CallBuild
    \/ CallGetClauseCount

SpecMatchBuilder == InitMatchBuilder /\ [][NextMatchBuilder]_vars

\* The calls among the first n that returned a generated variable name.
NamingCalls(n) ==
    {k \in 1..n : returned[k].op \in {"AddAttributeMatch", "AddPathMatch"}}

AttributeCalls(n) == {k \in 1..n : returned[k].op = "AddAttributeMatch"}

\* C13 (as stated): the names AddAttributeMatch returned are attr0, attr1,
\* ... in call order, whatever other calls were made in between.
C13_AttrNamesCountAttributeCalls ==
    \A k \in 1..Len(returned) :
        returned[k].op = "AddAttributeMatch" =>
            returned[k].value = AttrVarName(Cardinality(AttributeCalls(k - 1)))

\* C13 (amended): the name AddAttributeMatch returns is attrN where N is the
\* number of earlier AddAttributeMatch and AddPathMatch calls on the
\* instance; AddCustomMatch, Build and GetClauseCount do not change N.
C13_AttrNamesCountNamingCalls ==
    \A k \in 1..Len(returned) :
        returned[k].op = "AddAttributeMatch" =>
            returned[k].value = AttrVarName(Cardinality(NamingCalls(k - 1)))

\* AddPathMatch, AddAttributeMatch, Build, AddAttributeMatch in that order
\* returned path0, attr1, the clauses so far, and attr2.
C13_Witness ==
    /\ Len(returned) = 4
    /\ returned[1] = Call("AddPathMatch", PathVarName(0))
    /\ returned[2] = Call("AddAttributeMatch", AttrVarName(1))
    /\ returned[3].op = "Build"
    /\ returned[4] = Call("AddAttributeMatch", AttrVarName(2))


\* ------------------------------------------------------------------------
\* The overlap handler's mode and parameters
\* ------------------------------------------------------------------------
OverlapQueryRun ==
    /\ phase = "done"
    /\ request.tool = "detect-synthetic-identity"
    /\ ReadCalls(dbCalls) # {}

IsInvestigationText(q) ==
    /\ Contains(q, <<"M", "A", "T", "C", "H", " ", "(", "t", "a", "r", "g", "e", "t", ":">>)
    /\ Contains(q, <<"$", "e", "n", "t", "i", "t", "y", "I", "d">>)

IsDiscoveryText(q) ==
    /\ Contains(q, <<"M", "A", "T", "C", "H", " ", "(", "e", "1", ":">>)
    /\ ~Contains(q, <<"$", "e", "n", "t", "i", "t", "y", "I", "d">>)

\* C14: the overlap handler runs one query; with a non-empty entityId it is
\* the investigation query with parameters entityId, minSharedAttributes and
\* limit, and with an empty entityId it is the discovery query with
\* parameters minSharedAttributes and limit only.
C14_ModeFollowsEntityId ==
    OverlapQueryRun =>
        /\ Cardinality(ReadCalls(dbCalls)) = 1
        /\ request.args.EntityId # <<>> =>
              /\ IsInvestigationText(dbCalls[1].query)
              /\ DOMAIN dbCalls[1].params = {"entityId", "minSharedAttributes", "limit"}
              /\ dbCalls[1].params.entityId = request.args.EntityId
        /\ request.args.EntityId = <<>> =>
              /\ IsDiscoveryText(dbCalls[1].query)
              /\ DOMAIN dbCalls[1].params = {"minSharedAttributes", "limit"}

\* A discovery call (no entityId) that ran its query and returned records.
C14_Witness ==
    /\ OverlapQueryRun
    /\ request.args.EntityId = <<>>
    /\ Len(request.args.PIIRelationships) = 2
    /\ ~result.isError
    /\ IsDiscoveryText(dbCalls[1].query)


\* C15: when the overlap tool is called with minSharedAttributes omitted,
\* zero or negative, the query receives 2 as $minSharedAttributes.
C15_NonPositiveMinSharedDefaults ==
    (OverlapQueryRun /\ request.args.MinSharedAttributes <= 0) =>
        dbCalls[1].params.minSharedAttributes = 2


\* ------------------------------------------------------------------------
\* get-schema on an empty visualization
\* ------------------------------------------------------------------------
\* A get-schema call was served with both services present, and the
\* visualization procedure answered with no records.
EmptyVisualizationServed ==
    /\ phase = "done"
    /\ request.tool = "get-schema"
    /\ request.db /\ request.analytics
    /\ request.fault # "visualization"
    /\ request.visEmpty

QuotedDatabaseName == <<"'">> \o request.database \o <<"'">>

\* C16: when the visualization returns no records, get-schema runs the
\* node-count query and nothing else after the visualization (the property
\* procedures are not called); with nodeCount 0 the result is the non-error
\* message naming the configured database, with nodeCount > 0 it is an error.
C16_EmptyVisualizationChecksNodeCount ==
    EmptyVisualizationServed =>
        /\ Len(dbCalls) = 2
        /\ dbCalls[1].query = "schemaVisualizationQuery"
        /\ dbCalls[2].query = "MATCH (n) RETURN count(n) as nodeCount"
        /\ \A i \in 1..Len(dbCalls) :
              dbCalls[i].query \notin {"nodePropertiesQuery", "relPropertiesQuery"}
        /\ (request.fault # "count" /\ request.nodeCount = 0) =>
              /\ ~result.isError
              /\ Contains(result.text, QuotedDatabaseName)
              /\ Contains(result.text, <<"c", "o", "n", "t", "a", "i", "n", "s", " ", "n", "o", " ", "d", "a", "t", "a">>)
        /\ (request.fault # "count" /\ request.nodeCount > 0) => result.isError

C16_Witness ==
    /\ EmptyVisualizationServed
    /\ request.fault = "none"
    /\ request.nodeCount = 0
    /\ request.database = <<"f", "r", "a", "u", "d">>
    /\ ~result.isError
    /\ Len(dbCalls) = 2

C16_WitnessNodesPresent ==
    /\ EmptyVisualizationServed
    /\ request.fault = "none"
    /\ request.nodeCount > 0
    /\ result.isError


\* ------------------------------------------------------------------------
\* Schema extraction and rendering (get_schema_handler.go)
\* ------------------------------------------------------------------------
\* Go maps are functions on their key set; a nil map is the empty function.
EmptyMap == [k \in {} |-> <<>>]

MapPut(mp, k, v) == [x \in (DOMAIN mp) \cup {k} |-> IF x = k THEN v ELSE mp[x]]

MapGet(mp, k, zero) == IF k \in DOMAIN mp THEN mp[k] ELSE zero

MaxNodes == 2
MaxRels == 2

\* A node element of db.schema.visualization(): the label is Props["name"];
\* the empty name stands for an element without a usable name.
Node(id, name) == [Id |-> id, Props |-> [name |-> name]]

\* A relationship element: the type is Props["name"].
VisRelationship(startId, endId, name) ==
    [StartId |-> startId, EndId |-> endId, Props |-> [name |-> name]]

\* The structs of the extracted schema.
Relationship(direction, labels, properties) ==
    [Direction |-> direction, Labels |-> labels, Properties |-> properties]

SchemaDetail(type, properties, relationships) ==
    [Type |-> type, Properties |-> properties, Relationships |-> relationships]

SchemaItem(key, value) == [Key |-> key, Value |-> value]

\* A record of db.schema.nodeTypeProperties() / db.schema.relTypeProperties().
NodePropsRecord(labels, propertyName, propertyTypes) ==
    [nodeLabels |-> labels, propertyName |-> propertyName,
     propertyTypes |-> propertyTypes]

RelPropsRecord(relType, propertyName, propertyTypes) ==
    [relType |-> relType, propertyName |-> propertyName,
     propertyTypes |-> propertyTypes]

\* label -> {propName -> propType}, indexed by nodeLabels[0].
RECURSIVE nodePropMapFrom(_, _)
nodePropMapFrom(records, acc) ==
    IF records = <<>> THEN acc
    ELSE LET r == Head(records) IN
         nodePropMapFrom(Tail(records),
            IF Len(r.nodeLabels) > 0 /\ Len(r.propertyTypes) > 0
            THEN MapPut(acc, r.nodeLabels[1],
                        MapPut(MapGet(acc, r.nodeLabels[1], EmptyMap),
                               r.propertyName, r.propertyTypes[1]))
            ELSE acc)

\* relType -> {propName -> propType}.
RECURSIVE relPropMapFrom(_, _)
relPropMapFrom(records, acc) ==
    IF records = <<>> THEN acc
    ELSE LET r == Head(records) IN
         relPropMapFrom(Tail(records),
            IF Len(r.propertyTypes) > 0
            THEN MapPut(acc, r.relType,
                        MapPut(MapGet(acc, r.relType, EmptyMap),
                               r.propertyName, r.propertyTypes[1]))
            ELSE acc)

\* node ID -> label.
RECURSIVE nodeIDToLabelFrom(_, _)
nodeIDToLabelFrom(nodesList, acc) ==
    IF nodesList = <<>> THEN acc
    ELSE nodeIDToLabelFrom(Tail(nodesList),
                           MapPut(acc, Head(nodesList).Id, Head(nodesList).Props.name))

\* nodeLabel -> {relType -> Relationship}: an "out" entry under the start
\* label, then an "in" entry under the end label, both stored under relType.
RECURSIVE nodeRelsMapFrom(_, _, _, _)
nodeRelsMapFrom(relationshipsList, nodeIDToLabel, relPropMap, acc) ==
    IF relationshipsList = <<>> THEN acc
    ELSE LET rel == Head(relationshipsList)
             relType == rel.Props.name
             startLabel == MapGet(nodeIDToLabel, rel.StartId, <<>>)
             endLabel == MapGet(nodeIDToLabel, rel.EndId, <<>>)
             properties == MapGet(relPropMap, relType, EmptyMap)
             withOut == MapPut(acc, startLabel,
                               MapPut(MapGet(acc, startLabel, EmptyMap), relType,
                                      Relationship("out", <<endLabel>>, properties)))
             withIn == MapPut(withOut, endLabel,
                              MapPut(MapGet(withOut, endLabel, EmptyMap), relType,
                                     Relationship("in", <<startLabel>>, properties)))
         IN  nodeRelsMapFrom(Tail(relationshipsList), nodeIDToLabel, relPropMap,
                IF relType = <<>> THEN acc
                ELSE IF startLabel # <<>> /\ endLabel # <<>> THEN withIn
                ELSE acc)

\* Mutant of nodeItems: a node without relationships is left out.
RECURSIVE nodeItems_onlyConnected(_, _, _)
nodeItems_onlyConnected(nodesList, nodePropMap, nodeRelsMap) ==
    IF nodesList = <<>> THEN <<>>
    ELSE LET nodeName == Head(nodesList).Props.name
             rest == nodeItems_onlyConnected(Tail(nodesList), nodePropMap, nodeRelsMap)
         IN  IF nodeName = <<>> \/ nodeName \notin DOMAIN nodeRelsMap THEN rest
             ELSE <<SchemaItem(nodeName,
                        SchemaDetail("node", MapGet(nodePropMap, nodeName, EmptyMap),
                                     MapGet(nodeRelsMap, nodeName, EmptyMap)))>> \o rest

\* The node items of the result, in the order of the node elements; an
\* element without a name is skipped.
RECURSIVE nodeItems(_, _, _)
nodeItems(nodesList, nodePropMap, nodeRelsMap) ==
    IF nodesList = <<>> THEN <<>>
    ELSE LET nodeName == Head(nodesList).Props.name
             rest == nodeItems(Tail(nodesList), nodePropMap, nodeRelsMap)
         IN  IF nodeName = <<>> THEN rest
             ELSE <<SchemaItem(nodeName,
                        SchemaDetail("node", MapGet(nodePropMap, nodeName, EmptyMap),
                                     MapGet(nodeRelsMap, nodeName, EmptyMap)))>> \o rest

\* The relationship-type items: one per type, at its first occurrence.
RECURSIVE relationshipItems(_, _, _)
relationshipItems(relationshipsList, relPropMap, relTypesSeen) ==
    IF relationshipsList = <<>> THEN <<>>
    ELSE LET relType == Head(relationshipsList).Props.name IN
         IF relType = <<>> \/ relType \in relTypesSeen
         THEN relationshipItems(Tail(relationshipsList), relPropMap, relTypesSeen)
         ELSE <<SchemaItem(relType,
                    SchemaDetail("relationship", MapGet(relPropMap, relType, EmptyMap),
                                 EmptyMap))>>
              \o relationshipItems(Tail(relationshipsList), relPropMap,
                                   relTypesSeen \cup {relType})

\* processNativeSchema on a visualization record with well-typed 'nodes' and
\* 'relationships' lists.
processNativeSchema(visualization, nodePropsRecords, relPropsRecords) ==
    LET nodesList == visualization.nodes
        relationshipsList == visualization.relationships
        nodePropMap == nodePropMapFrom(nodePropsRecords, EmptyMap)
        relPropMap == relPropMapFrom(relPropsRecords, EmptyMap)
        nodeIDToLabel == nodeIDToLabelFrom(nodesList, EmptyMap)
        nodeRelsMap == nodeRelsMapFrom(relationshipsList, nodeIDToLabel, relPropMap,
                                       EmptyMap)
    IN  nodeItems(nodesList, nodePropMap, nodeRelsMap)
        \o relationshipItems(relationshipsList, relPropMap, {})


\* The grave accent (U+0060) that delimits inline code in markdown; a string
\* literal cannot hold it, so it is written as a character of its own.
Backtick == "U+0060"

\* The list lines (name and type) of a property map, in the order ord in
\* which the range loop visits the keys.
PropertyLines(properties, ord) ==
    [i \in 1..Len(ord) |->
        Concat(<<<<" ", " ", "-", " ", Backtick>>, ord[i], <<Backtick, " ", "(">>, properties[ord[i]], <<")">>>>)]

\* The Cypher pattern of one relationship entry of a node.
cypherPattern(nodeKey, relName, rel) ==
    LET targetLabels == Join(rel.Labels, <<",", " ">>) IN
    IF rel.Direction = "out"
    THEN Concat(<<<<"(", ":">>, nodeKey, <<")", "-", "[", ":">>, relName, <<"]", "-", ">", "(", ":">>, targetLabels, <<")">>>>)
    ELSE Concat(<<<<"(", ":">>, nodeKey, <<")", "<", "-", "[", ":">>, relName, <<"]", "-", "(", ":">>, targetLabels, <<")">>>>)

RelationshipLines(nodeKey, relationships, ord) ==
    [i \in 1..Len(ord) |->
        Concat(<<<<" ", " ", "-", " ", Backtick>>, cypherPattern(nodeKey, ord[i], relationships[ord[i]]), <<Backtick>>>>)]

PropertiesBlock(properties, ord) ==
    IF DOMAIN properties # {}
    THEN <<<<"*", "P", "r", "o", "p", "e", "r", "t", "i", "e", "s", ":", "*">>, <<>>>> \o PropertyLines(properties, ord) \o <<<<>>>>
    ELSE <<>>

\* The part of the nodes section written for one node item.
NodeBlock(node, propOrd, relOrd) ==
    <<<<"#", "#", "#", " ">> \o node.Key, <<>>>>
    \o PropertiesBlock(node.Value.Properties, propOrd)
    \o (IF DOMAIN node.Value.Relationships # {}
        THEN <<<<"*", "R", "e", "l", "a", "t", "i", "o", "n", "s", "h", "i", "p", "s", ":", "*">>, <<>>>>
             \o RelationshipLines(node.Key, node.Value.Relationships, relOrd)
             \o <<<<>>>>
        ELSE <<>>)

\* The part of the relationship-types section written for one item.
RelationshipBlock(rel, propOrd) ==
    <<<<"#", "#", "#", " ", ":">> \o rel.Key, <<>>>> \o PropertiesBlock(rel.Value.Properties, propOrd)

\* The blocks of the items of one type, in item order; propOrd[i] and
\* relOrd[i] are the orders in which the maps of items[i] are visited.
RECURSIVE Blocks(_, _, _, _, _)
Blocks(items, type, propOrd, relOrd, i) ==
    IF i > Len(items) THEN <<>>
    ELSE (IF items[i].Value.Type # type THEN <<>>
          ELSE IF type = "node" THEN NodeBlock(items[i], propOrd[i], relOrd[i])
          ELSE RelationshipBlock(items[i], propOrd[i]))
         \o Blocks(items, type, propOrd, relOrd, i + 1)

\* formatSchemaAsMarkdown; the text is given as its lines (the pieces between
\* the "\n" characters written).
formatSchemaAsMarkdown(items, propOrd, relOrd) ==
    LET nodes == SelectSeq(items, LAMBDA item : item.Value.Type = "node")
        relationships == SelectSeq(items, LAMBDA item : item.Value.Type = "relationship")
    IN  <<<<"#", " ", "D", "a", "t", "a", "b", "a", "s", "e", " ", "S", "c", "h", "e", "m", "a">>, <<>>, <<"T", "h", "i", "s", " ", "s", "c", "h", "e", "m", "a", " ", "r", "e", "p", "r", "e", "s", "e", "n", "t", "s", " ", "t", "h", "e", " ", "c", "u", "r", "r", "e", "n", "t", " ", "s", "t", "a", "t", "e", " ", "o", "f", " ", "y", "o", "u", "r", " ", "N", "e", "o", "4", "j", " ", "d", "a", "t", "a", "b", "a", "s", "e", ".">>, <<>>>>
        \o (IF Len(nodes) > 0
            THEN <<<<"#", "#", " ", "1", ".", " ", "N", "o", "d", "e", " ", "L", "a", "b", "e", "l", "s", " ", "a", "n", "d", " ", "P", "r", "o", "p", "e", "r", "t", "i", "e", "s">>, <<>>>> \o Blocks(items, "node", propOrd, relOrd, 1)
            ELSE <<>>)
        \o (IF Len(relationships) > 0
            THEN <<<<"#", "#", " ", "2", ".", " ", "R", "e", "l", "a", "t", "i", "o", "n", "s", "h", "i", "p", " ", "T", "y", "p", "e", "s">>, <<>>>> \o Blocks(items, "relationship", propOrd, relOrd, 1)
            ELSE <<>>)

\* One visiting order for each of the key sets.
RECURSIVE IterationOrders(_)
IterationOrders(keySets) ==
    IF keySets = <<>> THEN {<<>>}
    ELSE {<<p>> \o rest : p \in Perms(Head(keySets)),
                          rest \in IterationOrders(Tail(keySets))}

PropertyOrders(items) ==
    IterationOrders([i \in 1..Len(items) |-> DOMAIN items[i].Value.Properties])

RelationshipOrders(items) ==
    IterationOrders([i \in 1..Len(items) |-> DOMAIN items[i].Value.Relationships])


\* ------------------------------------------------------------------------
\* Extraction and rendering of one visualization
\* ------------------------------------------------------------------------
LabelNames == <<<<"C", "u", "s", "t", "o", "m", "e", "r">>, <<"E", "m", "a", "i", "l">>, <<"P", "h", "o", "n", "e">>, <<"S", "S", "N">>>>

RelTypes == {<<"H", "A", "S">>, <<"U", "S", "E", "S">>}

\* The node elements have distinct ids; element i carries label i or has no
\* name.
NodeLists ==
    UNION {{[i \in 1..n |-> Node(i, IF i \in named THEN LabelNames[i] ELSE <<>>)] :
                named \in SUBSET (1..n)} : n \in 0..MaxNodes}

\* Relationship elements between the node elements.
RelationshipLists(n) ==
    SeqsUpTo({VisRelationship(s, e, t) : s \in 1..n, e \in 1..n, t \in RelTypes},
             MaxRels)

\* What the two property procedures answer: nothing, or two properties of the
\* first label and two of the first relationship type.
PropertyRecords ==
    {[node |-> <<>>, rel |-> <<>>],
     [node |-> <<NodePropsRecord(<<LabelNames[1]>>, <<"i", "d">>, <<<<"S", "T", "R", "I", "N", "G">>>>),
                 NodePropsRecord(<<LabelNames[1]>>, <<"n", "a", "m", "e">>, <<<<"S", "T", "R", "I", "N", "G">>>>)>>,
      rel |-> <<RelPropsRecord(<<"H", "A", "S">>, <<"s", "i", "n", "c", "e">>, <<<<"D", "A", "T", "E">>>>),
                RelPropsRecord(<<"H", "A", "S">>, <<"v", "i", "a">>, <<<<"S", "T", "R", "I", "N", "G">>>>)>>]}

VisualizedRequest(nodes, relationships, records) ==
    [tool |-> "get-schema",
     visualization |-> [nodes |-> nodes, relationships |-> relationships],
     nodePropsRecords |-> records.node, relPropsRecords |-> records.rel]

InitSchema ==
    /\ phase = "visualized"
    /\ Idle
    /\ \E nodes \in NodeLists, records \in PropertyRecords :
          \E relationships \in RelationshipLists(Len(nodes)) :
              request = VisualizedRequest(nodes, relationships, records)
    /\ result = NoResult
    /\ dbCalls = <<>>
    /\ events = <<>>
    /\ builtQuery = <<>>
    /\ matchBuilder = [clauses |-> <<>>, varCounter |-> 0]
    /\ returned = <<>>
    /\ schemaItems = <<>>
    /\ markdown = <<>>
    /\ trace = <<>>

\* handleGetSchema from the three query results on: the schema is extracted
\* and rendered; the range loops of the rendering visit the maps in any order.
FormatNativeSchema ==
    /\ phase = "visualized"
    /\ LET structuredOutput == processNativeSchema(request.visualization,
                                                   request.nodePropsRecords,
                                                   request.relPropsRecords)
       IN  /\ schemaItems' = structuredOutput
           /\ \E propOrd \in PropertyOrders(structuredOutput),
                 relOrd \in RelationshipOrders(structuredOutput) :
                   markdown' = formatSchemaAsMarkdown(structuredOutput, propOrd, relOrd)
    /\ phase' = "rendered"
    /\ UNCHANGED <<trace, config, embeddedFS, osFS, registry, mcpTools, startErr, request,
                   result, dbCalls, events, builtQuery, matchBuilder, returned>>

NextSchema == FormatNativeSchema

SpecSchema == InitSchema /\ [][NextSchema]_vars


\* ------------------------------------------------------------------------
\* Properties of extraction and rendering
\* ------------------------------------------------------------------------
SchemaRendered == phase = "rendered"

HasPrefix(s, prefix) ==
    Len(s) >= Len(prefix) /\ SubSeq(s, 1, Len(prefix)) = prefix

\* The first position at which sub occurs in s, or 0.
FirstIndex(s, sub) ==
    LET found == {i \in 1..(Len(s) - Len(sub) + 1) : SubSeq(s, i, i + Len(sub) - 1) = sub}
    IN  IF found = {} THEN 0 ELSE CHOOSE i \in found : \A j \in found : i <= j

\* The text of s between the first occurrences of open and close after it.
Between(s, open, close) ==
    LET from == FirstIndex(s, open) + Len(open)
        rest == SubSeq(s, from, Len(s))
    IN  SubSeq(rest, 1, FirstIndex(rest, close) - 1)

\* The (srcLabel, relType, direction, tgtLabel) tuple a markdown line states,
\* if it is a pattern line.
ParsePatternLine(line) ==
    LET prefix == <<" ", " ", "-", " ", Backtick, "(", ":">>
        body == SubSeq(line, Len(prefix) + 1, Len(line))
    IN  IF ~HasPrefix(line, prefix) THEN {}
        ELSE IF FirstIndex(body, <<")", "<", "-", "[", ":">>) > 0
        THEN {<<Between(line, <<"(", ":">>, <<")", "<", "-", "[", ":">>), Between(line, <<")", "<", "-", "[", ":">>, <<"]", "-", "(", ":">>), "in",
                Between(line, <<"]", "-", "(", ":">>, <<")", Backtick>>)>>}
        ELSE IF FirstIndex(body, <<")", "-", "[", ":">>) > 0
        THEN {<<Between(line, <<"(", ":">>, <<")", "-", "[", ":">>), Between(line, <<")", "-", "[", ":">>, <<"]", "-", ">", "(", ":">>), "out",
                Between(line, <<"]", "-", ">", "(", ":">>, <<")", Backtick>>)>>}
        ELSE {}

ParsedPatterns(lines) == UNION {ParsePatternLine(lines[i]) : i \in 1..Len(lines)}

\* The label of the node element with the given id ("" if it has no name).
LabelOfNode(id) ==
    LET nodes == request.visualization.nodes
        hits == {i \in 1..Len(nodes) : nodes[i].Id = id}
    IN  IF hits = {} THEN <<>> ELSE nodes[CHOOSE i \in hits : TRUE].Props.name

\* The relationship elements whose endpoints are named nodes.
NamedRelationships ==
    {rel \in Range(request.visualization.relationships) :
        LabelOfNode(rel.StartId) # <<>> /\ LabelOfNode(rel.EndId) # <<>>}

\* The directed patterns the visualization gives: two per relationship element.
VisualizationPatterns ==
    UNION {{<<LabelOfNode(rel.StartId), rel.Props.name, "out", LabelOfNode(rel.EndId)>>,
            <<LabelOfNode(rel.EndId), rel.Props.name, "in", LabelOfNode(rel.StartId)>>} :
           rel \in NamedRelationships}

\* The extracted schema holds the pattern under the item of its source label.
ExtractedPattern(t) ==
    \E i \in 1..Len(schemaItems) :
        /\ schemaItems[i].Key = t[1]
        /\ schemaItems[i].Value.Type = "node"
        /\ t[2] \in DOMAIN schemaItems[i].Value.Relationships
        /\ schemaItems[i].Value.Relationships[t[2]].Direction = t[3]
        /\ schemaItems[i].Value.Relationships[t[2]].Labels = <<t[4]>>

\* C17: every relationship element between named nodes appears in the
\* extracted schema and in the markdown as an outgoing pattern under its start
\* label and an incoming pattern under its end label, so that the tuples
\* parsed back from the pattern lines are exactly those of the visualization.
C17_PatternsRoundTrip ==
    SchemaRendered =>
        /\ \A t \in VisualizationPatterns : ExtractedPattern(t)
        /\ ParsedPatterns(markdown) = VisualizationPatterns

\* The patterns written are never invented: each parsed tuple is one of the
\* visualization.
PatternsComeFromVisualization ==
    SchemaRendered => ParsedPatterns(markdown) \subseteq VisualizationPatterns

NodeItemKeys ==
    LET nodes == SelectSeq(schemaItems, LAMBDA item : item.Value.Type = "node")
    IN  [i \in 1..Len(nodes) |-> nodes[i].Key]

ElementNames ==
    [i \in 1..Len(request.visualization.nodes) |->
        request.visualization.nodes[i].Props.name]

\* C18 (as stated): every node element of the visualization ends up as a
\* node SchemaItem; none is dropped.
C18_EveryNodeElementIsAnItem ==
    SchemaRendered => Len(NodeItemKeys) = Len(request.visualization.nodes)

\* C18 (amended): the node SchemaItems are exactly the node elements that
\* carry a name, in the order of the visualization; an element without a name
\* yields no item.
C18_EveryNamedNodeIsAnItem ==
    SchemaRendered =>
        NodeItemKeys = SelectSeq(ElementNames, LAMBDA name : name # <<>>)

\* A rendered visualization of two elements, the first without a name, the
\* second named and without relationships: one node item.
C18_Witness ==
    /\ SchemaRendered
    /\ Len(request.visualization.nodes) = 2
    /\ ElementNames[1] = <<>>
    /\ ElementNames[2] = LabelNames[2]
    /\ request.visualization.relationships = <<>>
    /\ NodeItemKeys = <<LabelNames[2]>>

\* C19: rendering the same list of SchemaItems always yields the same
\* markdown, whatever order the range loops visit the maps in.
C19_RenderingDeterministic ==
    SchemaRendered =>
        \A propOrd \in PropertyOrders(schemaItems),
           relOrd \in RelationshipOrders(schemaItems) :
            markdown = formatSchemaAsMarkdown(schemaItems, propOrd, relOrd)


\* ------------------------------------------------------------------------
\* The enabled tool list against the canonical table
\* ------------------------------------------------------------------------
TableEntry(tool, write, gds) == [tool |-> tool, write |-> write, gds |-> gds]

\* The canonical table as the specification gives it: the five built-in
\* tools, then the YAML tools in load order.
CanonicalTable ==
    << TableEntry(ServerTool("get-schema", "GetSchemaHandler"), FALSE, FALSE),
       TableEntry(ServerTool("read-cypher", "ReadCypherHandler"), FALSE, FALSE),
       TableEntry(ServerTool("write-cypher", "WriteCypherHandler"), TRUE, FALSE),
       TableEntry(ServerTool("list-gds-procedures", "ListGdsProceduresHandler"),
                  FALSE, TRUE),
       TableEntry(ServerTool("get-data-models", "GetReferenceModelsHandler"),
                  FALSE, FALSE) >>
    \o [i \in 1..Len(registry.configs) |->
           TableEntry(ServerTool(registry.configs[i].Name, "NewDynamicHandler"),
                      FALSE, FALSE)]

RemovedFromTable(entry) ==
    \/ config.ReadOnly /\ entry.write
    \/ ~config.gdsInstalled /\ entry.gds

\* C20: the tools handed to the transport are the canonical table without
\* the write tools (when read-only is on) and without the GDS tools (when GDS
\* is unavailable), in table order; no other tool is missing and none is added.
C20_EnabledToolsAreFilteredTable ==
    phase = "registered" =>
        LET kept == SelectSeq(CanonicalTable, LAMBDA entry : ~RemovedFromTable(entry))
        IN  mcpTools = [i \in 1..Len(kept) |-> kept[i].tool]

\* C20 witness: a read-only server without GDS that loaded two YAML tools
\* registered get-schema, read-cypher, get-data-models and the two YAML tools.
C20_Witness ==
    /\ phase = "registered"
    /\ config.ReadOnly
    /\ ~config.gdsInstalled
    /\ Len(registry.configs) = 2
    /\ Len(mcpTools) = 5
    /\ mcpTools[3].Name = "get-data-models"
    /\ mcpTools[5].Name = registry.configs[2].Name


\* ------------------------------------------------------------------------
\* Truncation of the combined reference model (package models)
\* ------------------------------------------------------------------------
\* A text is given by its length and the (0-based) indices of its "\n"
\* characters; the texts drawn are ASCII, one byte per character.
Text(length, newlines) == [len |-> length, newlines |-> newlines]

\* strings.LastIndex(s[:limit], "\n"), -1 if there is none.
LastNewlineBefore(s, limit) ==
    LET before == {p \in s.newlines : p < limit}
    IN  IF before = {} THEN -1 ELSE CHOOSE p \in before : \A q \in before : q <= p

\* The budget handleGetReferenceModels passes to truncateReferenceModel.
maxReferenceModelChars == 15000

\* truncateReferenceModel: the result is the prefix referenceModel[:prefixLen],
\* followed by the truncation sentinel when sentinel is TRUE.
truncateReferenceModel(referenceModel, maxChars) ==
    IF referenceModel.len <= maxChars
    THEN [prefixLen |-> referenceModel.len, sentinel |-> FALSE]
    ELSE LET lastNewline == LastNewlineBefore(referenceModel, maxChars) IN
         IF lastNewline > maxChars - 500
         THEN [prefixLen |-> lastNewline, sentinel |-> TRUE]
         ELSE [prefixLen |-> maxChars, sentinel |-> TRUE]

TextLengths == {0, 1, 14500, 14501, 14999, 15000, 15001, 15002, 20000}
NewlineIndices == {0, 14499, 14500, 14501, 14999, 15000, 15001}

ReferenceModelTexts ==
    {Text(length, {p \in newlines : p < length}) :
        length \in TextLengths, newlines \in SUBSET NewlineIndices}

InitTruncate ==
    /\ phase = "fetched"
    /\ Idle
    /\ \E referenceModel \in ReferenceModelTexts :
          request = [tool |-> "get-data-models", referenceModel |-> referenceModel]
    /\ result = NoResult
    /\ dbCalls = <<>>
    /\ events = <<>>
    /\ builtQuery = <<>>
    /\ matchBuilder = [clauses |-> <<>>, varCounter |-> 0]
    /\ returned = <<>>
    /\ schemaItems = <<>>
    /\ markdown = <<>>
    /\ trace = <<>>

\* handleGetReferenceModels truncates the combined text.
TruncateReferenceModel ==
    /\ phase = "fetched"
    /\ returned' = <<truncateReferenceModel(request.referenceModel,
                                            maxReferenceModelChars)>>
    /\ phase' = "truncated"
    /\ UNCHANGED <<trace, config, embeddedFS, osFS, registry, mcpTools, startErr, request,
                   result, dbCalls, events, builtQuery, matchBuilder,
                   schemaItems, markdown>>

NextTruncate == TruncateReferenceModel

SpecTruncate == InitTruncate /\ [][NextTruncate]_vars

Truncated == phase = "truncated"

\* The last newline of the input inside the 15,000-character budget.
LastNewlineInBudget == LastNewlineBefore(request.referenceModel, 15000)

\* C21: an input of at most 15,000 characters is returned unchanged; a longer
\* one gives a prefix followed by the sentinel, the prefix ending at the last
\* newline of the budget when that newline is one of the final 500 characters
\* of the budget (indices 14500..14999), and being the first 15,000 characters
\* otherwise.
C21_TruncationKeepsNewlineOfFinal500 ==
    Truncated =>
        IF request.referenceModel.len <= 15000
        THEN returned[1] = [prefixLen |-> request.referenceModel.len, sentinel |-> FALSE]
        ELSE /\ returned[1].sentinel
             /\ returned[1].prefixLen =
                    IF LastNewlineInBudget >= 15000 - 500 THEN LastNewlineInBudget
                    ELSE 15000

\* What the code does: the newline is used only from index 14501 on.
TruncationKeepsNewlineAfterIndex14500 ==
    Truncated =>
        IF request.referenceModel.len <= 15000
        THEN returned[1] = [prefixLen |-> request.referenceModel.len, sentinel |-> FALSE]
        ELSE /\ returned[1].sentinel
             /\ returned[1].prefixLen =
                    IF LastNewlineInBudget > 14500 THEN LastNewlineInBudget ELSE 15000


\* ------------------------------------------------------------------------
\* Parsing one descriptor
\* ------------------------------------------------------------------------
MaxParams == 2
MaxSegments == 3

DescriptorParams == {ParamString, ParamUntyped, ParamNoName, ParamBadType}
ExecutionModes == {nil, "read", "write", "", "delete"}
PathSegments == {"config", "tools", "fraud", "a.yaml"}

\* strings.Split never returns an empty list: a path has at least one part.
DescriptorPaths == SeqsUpTo(PathSegments, MaxSegments) \ {<<>>}

\* Descriptors of every content under one path, and one valid descriptor
\* under every path.
Descriptors ==
    {WithExecution(File(<<"config", "fraud", "a.yaml">>, "yaml", TRUE, TRUE,
                        name, desc, params), mode) :
        name \in {"", "detect-synthetic-identity"}, desc \in {"", "d"},
        params \in SeqsUpTo(DescriptorParams, MaxParams), mode \in ExecutionModes}
    \cup {File(path, "yaml", TRUE, TRUE, "detect-synthetic-identity", "d", <<>>) :
            path \in DescriptorPaths}

InitDescriptor ==
    /\ phase = "read"
    /\ Idle
    /\ \E file \in Descriptors : request = [tool |-> "descriptor", file |-> file]
    /\ result = NoResult
    /\ dbCalls = <<>>
    /\ events = <<>>
    /\ builtQuery = <<>>
    /\ matchBuilder = [clauses |-> <<>>, varCounter |-> 0]
    /\ returned = <<>>
    /\ schemaItems = <<>>
    /\ markdown = <<>>
    /\ trace = <<>>

\* The walk callback parses the file it has read.
ParseDescriptor ==
    /\ phase = "read"
    /\ returned' = <<parseToolConfig(request.file)>>
    /\ phase' = "parsed"
    /\ UNCHANGED <<trace, config, embeddedFS, osFS, registry, mcpTools, startErr, request,
                   result, dbCalls, events, builtQuery, matchBuilder,
                   schemaItems, markdown>>

NextDescriptor == ParseDescriptor

SpecDescriptor == InitDescriptor /\ [][NextDescriptor]_vars

Parsed == phase = "parsed"

Accepted == returned[1].err = nil

ParametersValid(params) ==
    /\ \A i \in 1..Len(params) : params[i].Name # ""
    /\ \A i, j \in 1..Len(params) : i # j => params[i].Name # params[j].Name
    /\ \A i \in 1..Len(params) :
          params[i].Type = "" \/
          params[i].Type \in {"string", "integer", "number", "boolean", "array", "object"}

\* C22: a descriptor is accepted if and only if its Name and Description are
\* non-empty, its parameters have non-empty unique names and an absent or
\* allowed type, and its execution mode, if present, is read or write.
C22_AcceptedIffValid ==
    Parsed =>
        (Accepted <=>
            /\ request.file.Name # ""
            /\ request.file.Description # ""
            /\ ParametersValid(request.file.Parameters)
            /\ request.file.Execution \in {nil, "read", "write"})

\* What the walker does: the execution block plays no part in acceptance.
AcceptedIffValidButForExecution ==
    Parsed =>
        (Accepted <=>
            /\ request.file.Name # ""
            /\ request.file.Description # ""
            /\ ParametersValid(request.file.Parameters))


\* The parts of the parsed descriptor's path and the category it was given.
PathParts == request.file.path
DerivedCategory == returned[1].config.Category

\* The positions of a "config" part that has a part after it.
ConfigPositions == {i \in 1..(Len(PathParts) - 1) : PathParts[i] = "config"}

FirstConfigPosition == CHOOSE i \in ConfigPositions : \A j \in ConfigPositions : i <= j

\* C23 (as stated): the category is the part following "config"; without a
\* "config" part it is the first part after a leading "tools"; in every other
\* case it is "general".
C23_CategoryElseGeneral ==
    (Parsed /\ Accepted) =>
        DerivedCategory =
            IF ConfigPositions # {} THEN PathParts[FirstConfigPosition + 1]
            ELSE IF Len(PathParts) >= 2 /\ PathParts[1] = "tools" THEN PathParts[2]
            ELSE "general"

\* C23 (amended): the category is the part following the first "config" part
\* that has a successor; otherwise, for a path of at least two parts, it is
\* the second part when the first is "tools" and a third part exists, and the
\* first part in every other case; only a path of a single part gives
\* "general".
C23_CategoryElseFirstPart ==
    (Parsed /\ Accepted) =>
        DerivedCategory =
            IF ConfigPositions # {} THEN PathParts[FirstConfigPosition + 1]
            ELSE IF Len(PathParts) >= 3 /\ PathParts[1] = "tools" THEN PathParts[2]
            ELSE IF Len(PathParts) >= 2 THEN PathParts[1]
            ELSE "general"

\* A descriptor read through the OS walk, whose path is relative to the
\* config directory: fraud/a.yaml is given the category fraud.
C23_Witness ==
    /\ Parsed /\ Accepted
    /\ PathParts = <<"fraud", "a.yaml">>
    /\ DerivedCategory = "fraud"


\* ------------------------------------------------------------------------
\* BuildPropertyMap on bounded mappings
\* ------------------------------------------------------------------------
MaxProps == 2

ProjectionVarNames == {<<"e", "m", "a", "i", "l", "0">>, <<"p">>}
IdentifierProperties == {<<>>, <<"a", "d", "d", "r", "e", "s", "s">>, <<"i", "d">>}
IncludedProperties == {<<"v", "e", "r", "i", "f", "i", "e", "d">>, <<"c", "r", "e", "a", "t", "e", "d", "A", "t">>, <<"i", "d">>}

InitPropertyMap ==
    /\ phase = "mapping"
    /\ Idle
    /\ \E varName \in ProjectionVarNames, idProp \in IdentifierProperties,
          include \in SeqsUpTo(IncludedProperties, MaxProps) :
          request = [tool |-> "BuildPropertyMap", varName |-> varName,
                     mapping |-> AttributeMapping(<<"H", "A", "S", "_", "E", "M", "A", "I", "L">>, <<"E", "m", "a", "i", "l">>, idProp, include,
                                                  <<>>)]
    /\ result = NoResult
    /\ dbCalls = <<>>
    /\ events = <<>>
    /\ builtQuery = <<>>
    /\ matchBuilder = [clauses |-> <<>>, varCounter |-> 0]
    /\ returned = <<>>
    /\ schemaItems = <<>>
    /\ markdown = <<>>
    /\ trace = <<>>

CallBuildPropertyMap ==
    /\ phase = "mapping"
    /\ Built("BuildPropertyMap", BuildPropertyMap(request.varName, request.mapping))

NextPropertyMap == CallBuildPropertyMap

SpecPropertyMap == InitPropertyMap /\ [][NextPropertyMap]_vars

PropertyMapBuilt == phase = "BuildPropertyMap"

\* The entries the claim lists: the identifier if there is one, then the
\* included properties, or the wildcard when none is included.
ExpectedProjections ==
    LET m0 == request.mapping
        idEntry == IF m0.IdentifierProperty = <<>> THEN <<>>
                   ELSE << <<".">> \o m0.IdentifierProperty >>
        rest == IF m0.IncludeProperties = <<>> THEN << <<".", "*">> >>
                ELSE [i \in 1..Len(m0.IncludeProperties) |->
                         <<".">> \o m0.IncludeProperties[i]]
    IN  idEntry \o rest

C24_WitnessWildcard ==
    /\ PropertyMapBuilt
    /\ request.mapping.IdentifierProperty = <<>>
    /\ request.mapping.IncludeProperties = <<>>
    /\ builtQuery = <<"p", "{", ".", "*", "}">>


\* ------------------------------------------------------------------------
\* The hop specifier of one AddPathMatch call
\* ------------------------------------------------------------------------
MaxHopBound == 4

Directions == {"out", "in", "both", ""}

InitHops ==
    /\ phase = "building"
    /\ Idle
    /\ \E minHops \in 0..MaxHopBound, maxHops \in 0..MaxHopBound, dir \in Directions :
          request = [tool |-> "AddPathMatch",
                     path |-> PathSpecification(<<"K", "N", "O", "W", "S">>, dir, <<"P", "e", "r", "s", "o", "n">>,
                                                minHops, maxHops)]
    /\ result = NoResult
    /\ dbCalls = <<>>
    /\ events = <<>>
    /\ builtQuery = <<>>
    /\ matchBuilder = NewOptionalMatchBuilder
    /\ returned = <<>>
    /\ schemaItems = <<>>
    /\ markdown = <<>>
    /\ trace = <<>>

\* AddPathMatch on a new builder with the drawn path.
CallAddPathMatchOnce ==
    /\ returned = <<>>
    /\ LET r == AddPathMatch(matchBuilder, <<"c">>, request.path) IN
       BuilderCalled(r.builder, "AddPathMatch", r.varName)

NextHops == CallAddPathMatchOnce

SpecHops == InitHops /\ [][NextHops]_vars

PathMatched == Len(returned) = 1 /\ returned[1].op = "AddPathMatch"

Decimal(n) == <<"0", "1", "2", "3", "4", "5", "6", "7", "8", "9">>[n + 1]

\* The specifier the claim gives for MinHops = lo and MaxHops = hi.
ExpectedHopSpec(lo, hi) ==
    IF lo = hi /\ lo > 0 THEN <<"*", Decimal(lo)>>
    ELSE IF lo > 0 /\ hi > 0 THEN <<"*", Decimal(lo), ".", ".", Decimal(hi)>>
    ELSE IF lo = 0 /\ hi > 0 THEN <<"*", ".", ".", Decimal(hi)>>
    ELSE IF lo > 0 /\ hi = 0 THEN <<"*", Decimal(lo), ".", ".">>
    ELSE <<>>

C25_WitnessOpenStart ==
    /\ PathMatched
    /\ request.path.MinHops = 0 /\ request.path.MaxHops = 3
    /\ Contains(matchBuilder.clauses[1], <<"[", ":", "K", "N", "O", "W", "S", "*", ".", ".", "3", "]">>)


\* ------------------------------------------------------------------------
\* Telemetry of one invocation
\* ------------------------------------------------------------------------
TelemetryTools ==
    {"get-schema", "enrich-schema", "get-data-models", "get-customer-profile",
     "detect-synthetic-identity"}

\* The dependencies the handler of the request checks before anything else.
DependenciesPresent ==
    IF request.tool = "get-data-models" THEN request.analytics
    ELSE request.analytics /\ request.db

TelemetryInvocationDone == phase = "done" /\ request.tool \in TelemetryTools

DatabaseQueries ==
    {i \in 1..Len(trace) :
        trace[i].kind = "call"
        /\ trace[i].name \in {"ExecuteReadQuery", "ExecuteWriteQuery"}}

EventPositions == {i \in 1..Len(trace) : trace[i].kind = "event"}

EventsPrecedeQueries == \A e \in EventPositions, q \in DatabaseQueries : e < q

\* C26: an invocation of one of the five handlers with its dependencies
\* present emits exactly one event, carrying the name of the invoked tool,
\* before its first database query; an invocation rejected for a missing
\* dependency emits none.
C26_OneEventBeforeFirstQuery ==
    TelemetryInvocationDone =>
        IF DependenciesPresent
        THEN events = <<request.tool>> /\ EventsPrecedeQueries
        ELSE events = <<>> /\ EventPositions = {}

\* What holds instead: the first event carries the name of the invoked tool,
\* every event precedes the first query, and only enrich-schema emits more
\* than one event (the one of the get-schema handler it runs).
FirstEventNamesTheTool ==
    TelemetryInvocationDone =>
        IF DependenciesPresent
        THEN /\ Len(events) >= 1 /\ events[1] = request.tool
             /\ EventsPrecedeQueries
             /\ EventPositions = 1..Len(events)
             /\ (request.tool # "enrich-schema" => Len(events) = 1)
             /\ (request.tool = "enrich-schema" =>
                    events = <<"enrich-schema", "get-schema">>)
        ELSE events = <<>> /\ EventPositions = {} /\ DatabaseQueries = {}

\* A get-schema invocation that emitted its event and then queried.
TelemetryBeforeQueryReached ==
    /\ TelemetryInvocationDone
    /\ request.tool = "get-schema"
    /\ events = <<"get-schema">>
    /\ DatabaseQueries # {}
    /\ trace[1].kind = "event"


\* ------------------------------------------------------------------------
\* Reloading the registry while GetTools is called
\* ------------------------------------------------------------------------
MaxReloadFiles == 2

ReloadFiles ==
    { File(<<"config", "fraud", "a.yaml">>, "yaml", TRUE, TRUE,
           "detect-synthetic-identity", "d", <<ParamString, ParamUntyped>>),
      File(<<"config", "bloom", "b.yml">>, "yml", TRUE, TRUE,
           "generate-search-phrase", "d", <<>>),
      File(<<"config", "sar", "d.yaml">>, "yaml", TRUE, TRUE,
           "get-sar-report-guidance", "", <<>>) }

ConfigDirs == [exists : {TRUE}, files : SeqsUpTo(ReloadFiles, MaxReloadFiles)]

\* The element a reader finds behind an index the backing array does not
\* hold a config for.
NoConfig == [Name |-> nil]

\* A slice header whose words come from two slices: the elements seen through
\* the data pointer of array with the length of a slice of n elements.
TornSlice(array, n) ==
    [i \in 1..n |-> IF i <= Len(array) THEN array[i] ELSE NoConfig]

\* ToolRegistry.GetTools
GetTools(r) == r.configs

InitReload ==
    /\ phase = "loaded"
    /\ config = [ReadOnly |-> FALSE, gdsInstalled |-> FALSE]
    /\ embeddedFS = [available |-> FALSE, files |-> <<>>]
    /\ osFS \in ConfigDirs
    /\ registry = NewToolRegistry
    /\ mcpTools = <<>>
    /\ startErr = nil
    /\ request = NoRequest
    /\ result = NoResult
    /\ dbCalls = <<>>
    /\ events = <<>>
    /\ builtQuery = <<>>
    /\ matchBuilder = [clauses |-> <<>>, varCounter |-> 0]
    /\ returned = <<>>
    /\ schemaItems = <<>>
    /\ markdown = <<>>
    /\ trace = <<>>

ReloadUnchanged ==
    UNCHANGED <<trace, config, embeddedFS, mcpTools, result, dbCalls, events, builtQuery,
                matchBuilder, schemaItems, markdown>>

\* The files of the config directory change between two loads.
ChangeConfigDir ==
    /\ phase = "loaded"
    /\ \E dir \in ConfigDirs : dir # osFS /\ osFS' = dir
    /\ UNCHANGED <<phase, registry, startErr, request, returned>>
    /\ ReloadUnchanged

\* LoadTools up to its assignment: the walk.  On an error the call returns
\* and r.configs is not assigned.
LoadToolsWalk ==
    /\ phase = "loaded"
    /\ LET l == LoadTools(registry, embeddedFS, osFS) IN
       /\ startErr' = l.err
       /\ request' = [tool |-> "LoadTools", configs |-> l.registry.configs,
                      previous |-> registry.configs, failed |-> l.err # nil]
       /\ phase' = IF l.err # nil THEN "loaded" ELSE "assigning"
    /\ UNCHANGED <<osFS, registry, returned>>
    /\ ReloadUnchanged

\* r.configs = configs is a store of the words of a slice header, made
\* without a lock: first one word (the data pointer or the length) ...
LoadToolsStoreWord ==
    /\ phase = "assigning"
    /\ \/ registry' = [configs |-> TornSlice(request.configs, Len(request.previous))]
       \/ registry' = [configs |-> TornSlice(request.previous, Len(request.configs))]
    /\ phase' = "half-assigned"
    /\ UNCHANGED <<osFS, startErr, request, returned>>
    /\ ReloadUnchanged

\* ... then the rest of the header; LoadTools returns nil.
LoadToolsStoreRest ==
    /\ phase = "half-assigned"
    /\ registry' = [configs |-> request.configs]
    /\ phase' = "loaded"
    /\ UNCHANGED <<osFS, startErr, request, returned>>
    /\ ReloadUnchanged

\* Another goroutine calls GetTools; nothing orders it with LoadTools.
ReadTools ==
    /\ returned' = <<[op |-> "GetTools", value |-> GetTools(registry),
                      during |-> phase,
                      previous |-> IF request = NoRequest THEN <<>>
                                   ELSE request.previous,
                      configs |-> IF request = NoRequest THEN <<>>
                                  ELSE request.configs]>>
    /\ UNCHANGED <<phase, osFS, registry, startErr, request>>
    /\ ReloadUnchanged

NextReload ==
    \/ ChangeConfigDir
    \/ LoadToolsWalk
    \/ LoadToolsStoreWord
    \/ LoadToolsStoreRest
    \/ ReadTools

SpecReload == InitReload /\ [][NextReload]_vars

LoadToolsReturned == phase = "loaded" /\ request.tool = "LoadTools"

ToolsRead == Len(returned) = 1 /\ returned[1].op = "GetTools"

\* C27: a LoadTools call that succeeded left exactly the walked set in the
\* registry, a call that failed left the table it found, and what a reader
\* got from GetTools while a call was in progress is the whole previous table
\* or the whole new one.
C27_ReloadReplacesAtomically ==
    /\ LoadToolsReturned =>
          registry.configs = IF request.failed THEN request.previous
                             ELSE request.configs
    /\ (ToolsRead /\ returned[1].during \in {"assigning", "half-assigned"}) =>
          returned[1].value \in {returned[1].previous, returned[1].configs}

\* What holds: between calls the table is the walked set of the last
\* successful call (no merge with the previous table), a failed call leaves
\* the table it found, and a read that is not concurrent with the assignment
\* returns that table.
ReloadReplacesBetweenCalls ==
    /\ LoadToolsReturned =>
          registry.configs = IF request.failed THEN request.previous
                             ELSE request.configs
    /\ (ToolsRead /\ returned[1].during = "loaded" /\ returned[1].previous # <<>>) =>
          returned[1].value \in {returned[1].previous, returned[1].configs}

\* A read between the two stores of a reload from two tools to one.
TornReadReached ==
    /\ ToolsRead
    /\ returned[1].during = "half-assigned"
    /\ Len(returned[1].previous) = 2
    /\ Len(returned[1].configs) = 1

\* A second successful load replaced a table of two tools by one of one tool.
ReloadedSmallerTable ==
    /\ LoadToolsReturned
    /\ ~request.failed
    /\ Len(request.previous) = 2
    /\ Len(registry.configs) = 1

\* A failed load after a successful one.
FailedReloadReached ==
    /\ LoadToolsReturned
    /\ request.failed
    /\ Len(request.previous) > 0


\* ------------------------------------------------------------------------
\* A deployment of the executing dynamic tools: the walker whose ToolConfig
\* has a title and an execution block, and the handler that runs the
\* submitted query
\* ------------------------------------------------------------------------
MaxDeployedFiles == 2

\* parseToolConfig of the walker with an execution block: [err, config].
parseToolConfigWithExecution(file) ==
    IF ~file.yamlOK THEN [err |-> "failed to parse YAML", config |-> nil]
    ELSE IF file.Name = ""
         THEN [err |-> "tool name is required", config |-> nil]
    ELSE IF file.Title = ""
         THEN [err |-> "tool title is required", config |-> nil]
    ELSE IF file.Description = ""
         THEN [err |-> "tool description is required", config |-> nil]
    ELSE IF file.Execution # nil /\ file.Execution = ""
         THEN [err |-> "execution mode is required", config |-> nil]
    ELSE IF file.Execution # nil /\ file.Execution \notin {"read", "write"}
         THEN [err |-> "execution mode must be 'read' or 'write'", config |-> nil]
    ELSE [err |-> nil,
          config |-> [Name |-> file.Name,
                      Title |-> file.Title,
                      Description |-> file.Description,
                      Execution |-> file.Execution,
                      Category |-> deriveCategoryFromPath(file.path)]]

\* The walk of the embedded tree with that parser.
RECURSIVE walkExecutionFrom(_, _, _)
walkExecutionFrom(files, i, configs) ==
    IF i > Len(files) THEN [err |-> nil, configs |-> configs]
    ELSE IF ~IsYAMLFile(files[i]) THEN walkExecutionFrom(files, i + 1, configs)
    ELSE IF ~files[i].readable
         THEN [err |-> "failed to read config", configs |-> <<>>]
    ELSE LET p == parseToolConfigWithExecution(files[i]) IN
         IF p.err # nil THEN [err |-> p.err, configs |-> <<>>]
         ELSE walkExecutionFrom(files, i + 1, Append(configs, p.config))

\* loadDynamicTools over that walk: [registry, toolDefs]; every dynamic
\* tool is entered with readonly: true.
loadExecutingTools(efs) ==
    LET w == IF efs.available THEN walkExecutionFrom(efs.files, 1, <<>>)
             ELSE [err |-> nil, configs |-> <<>>]
    IN  IF w.err # nil THEN [registry |-> NewToolRegistry, toolDefs |-> <<>>]
        ELSE LET r == [configs |-> w.configs]
                 st == GetServerTools(r)
             IN  [registry |-> r,
                  toolDefs |-> [i \in 1..Len(st) |->
                                   ToolDefinition(dynamicCategory, st[i], TRUE)]]

DeployedFile(name, mode) ==
    WithTitle(WithExecution(File(<<"config", "data", name>>, "yaml", TRUE, TRUE,
                                 name, "d", <<>>), mode), "t")

DeployedFiles ==
    { DeployedFile("list-accounts", "read"),
      DeployedFile("flag-account", "write"),
      DeployedFile("get-sar-report-guidance", nil),
      DeployedFile("purge", "delete") }

InitDeployment ==
    /\ phase = "startup"
    /\ config \in [ReadOnly : BOOLEAN, gdsInstalled : BOOLEAN]
    /\ embeddedFS \in [available : {TRUE},
                       files : SeqsUpTo(DeployedFiles, MaxDeployedFiles)]
    /\ osFS = [exists |-> FALSE, files |-> <<>>]
    /\ registry = NewToolRegistry
    /\ mcpTools = <<>>
    /\ startErr = nil
    /\ request = NoRequest
    /\ result = NoResult
    /\ dbCalls = <<>>
    /\ events = <<>>
    /\ builtQuery = <<>>
    /\ matchBuilder = [clauses |-> <<>>, varCounter |-> 0]
    /\ returned = <<>>
    /\ schemaItems = <<>>
    /\ markdown = <<>>
    /\ trace = <<>>

\* registerTools of the deployment: the filtered table goes to the transport.
registerDeployedTools ==
    /\ phase = "startup"
    /\ LET l == loadExecutingTools(embeddedFS)
           defs == filterToolDefs(config, hardCodedToolDefs \o l.toolDefs)
       IN  /\ registry' = l.registry
           /\ mcpTools' = [i \in 1..Len(defs) |-> defs[i].definition]
    /\ startErr' = nil
    /\ phase' = "registered"
    /\ UNCHANGED <<trace, config, embeddedFS, osFS, request, result, dbCalls, events,
                   builtQuery, matchBuilder, returned, schemaItems, markdown>>

\* The transport runs the handler of an enabled tool for a client's call.
Dispatch(req, outcome) ==
    /\ request' = req
    /\ result' = outcome.result
    /\ dbCalls' = outcome.dbCalls
    /\ events' = outcome.events
    /\ trace' = outcome.trace
    /\ phase' = "done"
    /\ UNCHANGED <<config, embeddedFS, osFS, registry, mcpTools, startErr, builtQuery,
                   matchBuilder, returned, schemaItems, markdown>>

\* A client calls an enabled YAML tool: its handler is the closure over the
\* tool's config.
CallEnabledDynamicTool ==
    /\ phase = "registered"
    /\ \E i \in 1..Len(mcpTools), k \in 1..Len(registry.configs),
          f \in Faults, q \in SubmittedQueries :
          /\ mcpTools[i].Handler = "NewDynamicHandler"
          /\ mcpTools[i].Name = registry.configs[k].Name
          /\ LET req == DynamicRequest(TRUE, TRUE, f, registry.configs[k], q) IN
             Dispatch(req, handleDynamicTool(req))

\* A client calls get-schema, which is enabled in every deployment.
CallEnabledGetSchema ==
    /\ phase = "registered"
    /\ \E i \in 1..Len(mcpTools), f \in SchemaFaults, empty \in BOOLEAN :
          /\ mcpTools[i].Handler = "GetSchemaHandler"
          /\ LET req == SchemaRequest(TRUE, TRUE, f, empty, 0, <<"n", "e", "o", "4", "j">>) IN
             Dispatch(req, handleGetSchema(req))

NextDeployment ==
    \/ registerDeployedTools
    \/ CallEnabledDynamicTool
    \/ CallEnabledGetSchema

SpecDeployment == InitDeployment /\ [][NextDeployment]_vars

WriteCalls == {i \in 1..Len(dbCalls) : dbCalls[i].op = "ExecuteWriteQuery"}

\* The enabled tools whose descriptor declares execution mode write.
ExposedWriteTools ==
    {i \in 1..Len(mcpTools) :
        /\ mcpTools[i].Handler = "NewDynamicHandler"
        /\ \E k \in 1..Len(registry.configs) :
              /\ registry.configs[k].Name = mcpTools[i].Name
              /\ registry.configs[k].Execution = "write"}

\* C28: in a read-only deployment no call of an enabled tool reaches
\* ExecuteWriteQuery, and no YAML tool with execution mode write is in the
\* enabled tool list.
C28_ReadOnlyDeploymentNeverWrites ==
    config.ReadOnly =>
        /\ (phase = "done" => WriteCalls = {})
        /\ (phase \in {"registered", "done"} => ExposedWriteTools = {})

\* What holds: the hard-coded write tool is not enabled in a read-only
\* deployment, and every ExecuteWriteQuery comes from a YAML tool whose
\* descriptor declares mode write.
ReadOnlyHidesWriteCypher ==
    /\ (config.ReadOnly /\ phase \in {"registered", "done"}) =>
          \A i \in 1..Len(mcpTools) : mcpTools[i].Name # "write-cypher"
    /\ (phase = "done" /\ WriteCalls # {}) =>
          request.tool = "dynamic" /\ request.config.Execution = "write"

\* A read-only deployment in which a YAML tool ran a write query.
ReadOnlyWriteReached ==
    /\ config.ReadOnly
    /\ phase = "done"
    /\ WriteCalls # {}
    /\ request.config.Name = "flag-account"


\* ------------------------------------------------------------------------
\* Aliases of the profile query
\* ------------------------------------------------------------------------
ProfileQueryBuilt == phase = "buildCustomerProfileQuery"

\* The alias that follows ") as " at position p of q: the text up to the next
\* comma or line end.
AliasAt(q, p) ==
    LET rest == SubSeq(q, p + 5, Len(q))
        ends == {i \in 1..Len(rest) : rest[i] \in {",", "\n"}}
        end == CHOOSE i \in ends : \A j \in ends : i <= j
    IN  SubSeq(rest, 1, end - 1)

\* The places of the WITH clause at which an aggregation is given its alias.
WithAliasPositions(q) == Positions(q, <<")", " ", "a", "s", " ">>)

\* The body of the map the RETURN clause writes for category.
CategoryBlock(q, category) ==
    LET returnPart == SubSeq(q, FirstIndex(q, <<"R", "E", "T", "U", "R", "N", " ", "{">>), Len(q)) IN
    Between(returnPart, Concat(<< <<" ", " ">>, category, <<":", " ", "{", "\n">> >>),
            <<"\n", " ", " ", "}">>)

AliasesReferenced ==
    \A i \in 1..Len(request.mappings) :
        LET m == request.mappings[i]
            alias == CollectionAlias(CategoryOf(m), CollectionKey(m))
        IN  /\ \E p \in WithAliasPositions(builtQuery) : AliasAt(builtQuery, p) = alias
            /\ Contains(CategoryBlock(builtQuery, CategoryOf(m)) \o <<"\n">>,
                        Concat(<< <<":", " ">>, alias, <<"\n">> >>))
               \/ Contains(CategoryBlock(builtQuery, CategoryOf(m)),
                           Concat(<< <<":", " ">>, alias, <<",">> >>))

\* C29: the aliases the WITH clause of the profile query introduces are
\* pairwise distinct, and the alias of every mapping is referenced in the
\* RETURN map under the mapping's category.
C29_AliasesDistinctAndReferenced ==
    ProfileQueryBuilt =>
        /\ \A p1, p2 \in WithAliasPositions(builtQuery) :
              p1 # p2 => AliasAt(builtQuery, p1) # AliasAt(builtQuery, p2)
        /\ AliasesReferenced

\* What holds: every alias is referenced under its category, and two
\* aggregations get the same alias only for two mappings with the same
\* category and the same target label.
AliasesDistinctUnlessSameLabel ==
    ProfileQueryBuilt =>
        /\ AliasesReferenced
        /\ Cardinality(WithAliasPositions(builtQuery)) = Len(request.mappings)
        /\ (\A i, j \in 1..Len(request.mappings) :
               i # j => ~(/\ CategoryOf(request.mappings[i]) = CategoryOf(request.mappings[j])
                          /\ request.mappings[i].TargetLabel = request.mappings[j].TargetLabel))
           => \A p1, p2 \in WithAliasPositions(builtQuery) :
                 p1 # p2 => AliasAt(builtQuery, p1) # AliasAt(builtQuery, p2)

\* The profile query of HAS_EMAIL and HAS_WORK_EMAIL: contact_emails is
\* introduced twice.
SharedAliasReached ==
    /\ ProfileQueryBuilt
    /\ Len(request.mappings) = 2
    /\ request.mappings[1].RelationshipType # request.mappings[2].RelationshipType
    /\ Occurrences(builtQuery, <<")", " ", "a", "s", " ", "c", "o", "n", "t", "a", "c", "t", "_", "e", "m", "a", "i", "l", "s">>) = 2


\* ------------------------------------------------------------------------
\* Column aliases of the overlap queries
\* ------------------------------------------------------------------------
OverlapQueryBuilt == phase \in {"buildInvestigationQuery", "buildDiscoveryQuery"}

\* The RETURN clause of q.
ReturnClauseOf(q) == SubSeq(q, FirstIndex(q, <<"R", "E", "T", "U", "R", "N", " ">>), Len(q))

\* The places of text at which a column is given an alias, and the alias.
ColumnAliasPositions(text) == Positions(text, <<" ", "a", "s", " ">>)

ColumnAliasAt(text, p) == AliasAt(text, p - 1)

ColumnAliasesDistinct(text) ==
    \A p1, p2 \in ColumnAliasPositions(text) :
        p1 # p2 => ColumnAliasAt(text, p1) # ColumnAliasAt(text, p2)

\* C30: the column aliases of the RETURN clause of an overlap query are
\* pairwise distinct; the alias <var>Id of the identifier is not the alias
\* <var><Prop> of a display property.
C30_ReturnAliasesDistinct ==
    OverlapQueryBuilt => ColumnAliasesDistinct(ReturnClauseOf(builtQuery))

\* The display properties titleCase turns into "Id" although they are not
\* the id property.
ShadowingProperties(entityConfig) ==
    {i \in 1..Len(entityConfig.DisplayProperties) :
        /\ entityConfig.DisplayProperties[i] # entityConfig.IdProperty
        /\ titleCase(entityConfig.DisplayProperties[i]) = <<"I", "d">>}

\* What holds: the aliases are distinct unless a display property other
\* than the id property is called id (or Id).
ReturnAliasesDistinctUnlessIdShadowed ==
    (OverlapQueryBuilt /\ ShadowingProperties(request.entityConfig) = {})
        => ColumnAliasesDistinct(ReturnClauseOf(builtQuery))

\* The investigation query for idProperty customerId and display property
\* id: otherId is the alias of two columns.
ShadowedIdReached ==
    /\ phase = "buildInvestigationQuery"
    /\ Contains(builtQuery, <<"o", "t", "h", "e", "r", ".", "c", "u", "s", "t", "o", "m", "e", "r", "I", "d", " ", "a", "s", " ", "o", "t", "h", "e", "r", "I", "d", ",">>)
    /\ Contains(builtQuery, <<"o", "t", "h", "e", "r", ".", "i", "d", " ", "a", "s", " ", "o", "t", "h", "e", "r", "I", "d", ",">>)

====
